---- MODULE Spec2Model ----
(***************************************************************************)
(* TritonPilot topside link layer: command uplink (PilotPublisherService), *)
(* telemetry downlink (SensorSubscriberService), video control RPC         *)
(* (ROVStreams), raw frame receiver (ReceiverProcess) and the link status  *)
(* label (MainWindow._update_link_status).                                 *)
(*                                                                         *)
(* Each subsystem has its own next-state relation over its own variables;  *)
(* the variables of the other subsystems are left unchanged.  Times are    *)
(* integers in milliseconds, gains are integers in thousandths.            *)
(***************************************************************************)
EXTENDS Integers, Sequences, FiniteSets, TLC

\* ------------------------------------------------------------------------
\* Bounds of the model
\* ------------------------------------------------------------------------
MaxFrames == 4
MaxStopFrames == 1
MaxSocks == 3
MaxFaults == 2
MaxBatch == 2
MaxCalls == 2
MaxRpcFaults == 1
MaxStored == 3
MaxReaders == 2
MaxHb == 2
MaxSamples == 5
MaxConnects == 3
MaxCams == 3
MaxQueue == 2
MaxRecords == 3
MaxOrphans == 1
MaxPending == 2
FrameWidth == 2
FrameHeight == 1
MaxOpenFails == 3
MaxStreams == 3
MaxCtorFails == 1
MaxThreads == 2

\* ------------------------------------------------------------------------
\* Program constants
\* ------------------------------------------------------------------------
PILOT_MAX_GAIN_DEFAULT == 1000
PILOT_MAX_GAIN_MIN == 50
PILOT_MAX_GAIN_MAX == 1000
PILOT_MAX_GAIN_STEP == 50
DEPTH_HOLD_DEFAULT == FALSE
DEPTH_HOLD_TOGGLE_BUTTON == "rstick"
poll_ms == 200
stale_reconnect_ms == 3000
initial_reconnect_ms == 5000
reset_sleep_ms == 50

VARIABLES
    \* PilotPublisherService
    seq, modes, max_gain, prev_buttons, controller, pub_sock, last_status,
    pilot_stop,
    w_pc, w_emit, w_ret, w_frame, w_edges, w_err,
    c_pc, c_emit,
    frames, last_frame, hold_trace, emitted, stop_used, ses_prev_read,
    ctrl_reported,
    \* SensorSubscriberService
    sub_sock, open_socks, poller, sensor_stop, s_pc, sc_pc, start_age,
    rx_age, saw_any, s_old, s_site, inbox, faults, since_reset, reset_gap,
    since_make, make_site,
    s_read, s_dispatched,
    \* ROVStreams
    req_state, wire, rpc_pc, rpc_call, rpc_stage, rpc_sent, rpc_replies,
    rpc_result, rpc_calls, rpc_faults,
    \* ReceiverProcess
    proc, stop_reader, latest_frame, latest_seq, last_delivered_seq,
    channel_order, readers, rf_pc, rf_frame, rf_seq, stored, rx_returned,
    rx_last, old_readers, old_frames,
    \* MainWindow link status
    link_state_last, hb_period_ema_ms, hb_seen, sensor_seen, hb_count,
    link_trace,
    \* VideoWidget, _ConnectWorker, RemoteCameraManager, RemoteCv2Camera
    vw_state, vw_camera, vw_connect_worker, vw_has_frame_ts, vw_label,
    vw_closed, gui_blocked, signals, cw_pc, cw_cam, cw_started, opened,
    cam_rx, cam_notice, cam_start_messages, cam_count, req_threads,
    vw_conn_frames,
    \* GamepadSource
    deadzone, invert_ly, invert_ry, axis_raw, snap_axes, frame_axes, axis_pc,
    \* StreamRecorder
    rec_fh, rec_q, rec_stop, rec_thread, rec_ev, rec_file, stop_pc,
    record_pc, record_ev, rec_count, rec_accepted,
    \* PilotFrame
    pf_frame, pf_dict, pf_back, pf_pc,
    \* VideoWidget: retry schedule and stall detection
    tw_state, tw_retry_backoff, tw_retry_wait, tw_has_frame_ts, tw_frame_age,
    tw_camera, tw_worker, tw_orphans, tw_signals, tw_sched_delay,
    tw_sched_elapsed, tw_play_age,
    \* ReceiverProcess._raw_reader_loop, byte by byte
    rr_pc, rr_buf, rr_stop_reader, rr_pipe, rr_latest_len, rr_latest_seq,
    rr_stop_pc,
    \* PilotPublisherService: the gain cap under any configuration
    gn_pc, gn_min, gn_max, gn_step, gn_max_gain, gn_modes_max_gain, gn_pressed,
    \* PilotPublisherService: the delays of the controller open loops
    ol_pc, ol_controller, ol_stop, ol_reopen_on_error_ms, ol_sleeps,
    ol_attempts, ol_scans,
    \* VideoTabs: the warm-up of the streams
    vt_pc, vt_n, vt_current, vt_widgets, vt_warmup_index, vt_timer,
    vt_order, vt_raised, vt_fails,
    \* ReceiverProcess: the configuration and the process launched from it
    ru_pc, ru_cfg, ru_proc, ru_last, ru_changed,
    \* start() and stop() of the two services and their worker threads
    lc_pc, lc_in, lc_thread, lc_alive, lc_stop, lc_started, lc_timed_out,
    lc_last

pilotVars == <<seq, modes, max_gain, prev_buttons, controller, pub_sock,
               last_status, pilot_stop, w_pc, w_emit, w_ret,
               w_frame, w_edges, w_err, c_pc, c_emit, frames, last_frame,
               hold_trace, emitted, stop_used,
               ses_prev_read, ctrl_reported>>

sensorVars == <<sub_sock, open_socks, poller, sensor_stop, s_pc, sc_pc,
                start_age, rx_age, saw_any, s_old, s_site, inbox, faults,
                since_reset, reset_gap, s_read, s_dispatched, since_make,
                make_site>>
\* the time since self._sock was made, and what made it
makeLog == <<since_make, make_site>>

\* the messages the current drain has read, and those it gave to on_message
drainLog == <<s_read, s_dispatched>>

rpcVars == <<req_state, wire, rpc_pc, rpc_call, rpc_stage, rpc_sent,
             rpc_replies, rpc_result, rpc_calls, rpc_faults>>

rxVars == <<proc, stop_reader, latest_frame, latest_seq, last_delivered_seq,
            channel_order, readers, rf_pc, rf_frame, rf_seq, stored,
            rx_returned, rx_last, old_readers, old_frames>>
rxGhost == <<old_readers, old_frames>>

linkVars == <<link_state_last, hb_period_ema_ms, hb_seen, sensor_seen,
              hb_count, link_trace>>

sessionVars == <<vw_state, vw_camera, vw_connect_worker, vw_has_frame_ts,
                 vw_label, vw_closed, gui_blocked, signals, cw_pc, cw_cam,
                 cw_started, opened, cam_rx, cam_notice, cam_start_messages,
                 cam_count, req_threads, vw_conn_frames>>

axisVars == <<deadzone, invert_ly, invert_ry, axis_raw, snap_axes, frame_axes,
             axis_pc>>

recVars == <<rec_fh, rec_q, rec_stop, rec_thread, rec_ev, rec_file, stop_pc,
            record_pc, record_ev, rec_count, rec_accepted>>

frameVars == <<pf_frame, pf_dict, pf_back, pf_pc>>

timingVars == <<tw_state, tw_retry_backoff, tw_retry_wait, tw_has_frame_ts,
                tw_frame_age, tw_camera, tw_worker, tw_orphans, tw_signals,
                tw_sched_delay, tw_sched_elapsed,
               tw_play_age>>

readerVars == <<rr_pc, rr_buf, rr_stop_reader, rr_pipe, rr_latest_len,
                rr_latest_seq, rr_stop_pc>>

gainVars == <<gn_pc, gn_min, gn_max, gn_step, gn_max_gain, gn_modes_max_gain,
              gn_pressed>>

openVars == <<ol_pc, ol_controller, ol_stop, ol_reopen_on_error_ms, ol_sleeps,
              ol_attempts, ol_scans>>

tabsVars == <<vt_pc, vt_n, vt_current, vt_widgets, vt_warmup_index, vt_timer,
              vt_order, vt_raised, vt_fails>>

updateVars == <<ru_pc, ru_cfg, ru_proc, ru_last, ru_changed>>

lifeVars == <<lc_pc, lc_in, lc_thread, lc_alive, lc_stop, lc_started,
              lc_timed_out, lc_last>>

vars == <<pilotVars, sensorVars, rpcVars, rxVars, linkVars, sessionVars,
          axisVars, recVars, frameVars, timingVars, readerVars, gainVars,
          openVars, tabsVars, updateVars, lifeVars>>

\* ========================================================================
\* Command uplink: PilotPublisherService
\* ========================================================================
Buttons == {"a", "y", "rstick"}
NoneButtons == {"<None>"}
NoEdges == [b \in Buttons |-> "-"]
NoFrame == [seq |-> 0 - 1, buttons |-> {}]
NoBuilt == [seq |-> 0, depth_hold |-> FALSE, max_gain |-> 0,
            hold_edge |-> FALSE, outcome |-> "none"]

NoStatus == [controller |-> "none", max_gain |-> 0, error |-> ""]
StatusConnected(g) == [controller |-> "connected", max_gain |-> g, error |-> ""]
StatusDisconnected(e) == [controller |-> "disconnected", max_gain |-> 0, error |-> e]
StatusStopped == [controller |-> "stopped", max_gain |-> 0, error |-> ""]

Min2(a, b) == IF a < b THEN a ELSE b
Max2(a, b) == IF a > b THEN a ELSE b

\* __init__: min/max are swapped when configured the wrong way round
MaxGainMin == Min2(PILOT_MAX_GAIN_MIN, PILOT_MAX_GAIN_MAX)
MaxGainMax == Max2(PILOT_MAX_GAIN_MIN, PILOT_MAX_GAIN_MAX)
MaxGainStep == Max2(0, PILOT_MAX_GAIN_STEP)
ClampGain(g) == Max2(MaxGainMin, Min2(MaxGainMax, g))
InitialMaxGain == ClampGain(PILOT_MAX_GAIN_DEFAULT)

\* round(x, 2) on a value held in thousandths: nearest multiple of 10
Round2(x) == ((x + 5) \div 10) * 10

\* _adjust_max_gain: the new value of _max_gain for a step delta
AdjustMaxGain(g, delta) == IF delta = 0 THEN g ELSE Round2(ClampGain(g + delta))

\* _compute_edges(prev, cur)
ComputeEdgesLevel(prev, cur) ==
    [b \in Buttons |-> IF b \in cur THEN "down" ELSE "-"]
ComputeEdges(prev, cur) ==
    IF prev = NoneButtons THEN NoEdges
    ELSE [b \in Buttons |->
            IF (b \notin prev) /\ (b \in cur) THEN "down"
            ELSE IF (b \in prev) /\ (b \notin cur) THEN "up"
            ELSE "-"]

SeqAfterTickWrap(s) == (s + 1) % 2

\* the value self.seq takes at "self.seq += 1"
SeqAfterTick(s) == s + 1

FrameModesFromEdges(m, g, edges) ==
    [depth_hold |-> (edges[DEPTH_HOLD_TOGGLE_BUTTON] = "down"), max_gain |-> g]

\* frame.modes = dict(self._modes), after "_modes['max_gain'] = _max_gain"
FrameModes(m, g, edges) == [depth_hold |-> m.depth_hold, max_gain |-> g]

\* history: the frames built since the last sent frame on which a toggle edge
\* set depth_hold, as long as they are "one dropped, then one sent" without
\* a further toggle edge
HoldTrace(h, f) ==
    IF f.outcome = "sent" /\ f.hold_edge /\ f.depth_hold THEN <<f>>
    ELSE IF Len(h) = 1 /\ f.outcome = "again" /\ ~f.hold_edge THEN Append(h, f)
    ELSE IF Len(h) = 2 /\ f.outcome = "sent" /\ ~f.hold_edge THEN Append(h, f)
    ELSE <<>>

\* history: the last two on_status invocations
Remember(h, st) == IF Len(h) < 2 THEN Append(h, st) ELSE <<h[2], st>>

PilotInit ==
    /\ seq = 0
    /\ max_gain = InitialMaxGain
    /\ modes = [depth_hold |-> DEPTH_HOLD_DEFAULT, max_gain |-> InitialMaxGain]
    /\ prev_buttons = NoneButtons
    /\ controller = "none"
    /\ pub_sock = "none"
    /\ last_status = NoStatus
    /\ pilot_stop = FALSE
    /\ w_pc = "idle"
    /\ w_emit = NoStatus
    /\ w_ret = "idle"
    /\ w_frame = NoFrame
    /\ w_edges = NoEdges
    /\ w_err = ""
    /\ c_pc = "idle"
    /\ c_emit = NoStatus
    /\ frames = <<>>
    /\ last_frame = NoBuilt
    /\ hold_trace = <<>>
    /\ emitted = <<>>
    /\ stop_used = FALSE
    /\ ses_prev_read = "none"
    /\ ctrl_reported = "none"

\* frames explored per run: MaxFrames, and MaxStopFrames in the runs that
\* call stop()
FrameBudget == IF stop_used THEN MaxStopFrames ELSE MaxFrames

WorkerAlive == w_pc \notin {"idle", "done"}

\* --- the controlling thread: start() and stop() ---------------------------
PilotStart ==
    /\ c_pc = "idle"
    /\ IF WorkerAlive
         THEN UNCHANGED <<pilot_stop, w_pc>>
         ELSE pilot_stop' = FALSE /\ w_pc' = "run_init"
    /\ UNCHANGED <<seq, modes, max_gain, prev_buttons, controller, pub_sock,
                   last_status, w_emit, w_ret, w_frame, w_edges, w_err, c_pc,
                   c_emit, frames, last_frame, hold_trace, emitted,
                   stop_used>>
    /\ UNCHANGED ses_prev_read
    /\ UNCHANGED ctrl_reported

PilotStop ==
    /\ c_pc = "idle"
    /\ Len(frames) <= MaxStopFrames
    /\ pilot_stop' = TRUE
    /\ stop_used' = TRUE
    /\ c_emit' = StatusStopped
    /\ c_pc' = "emit_check"
    /\ UNCHANGED <<seq, modes, max_gain, prev_buttons, controller, pub_sock,
                   last_status, w_pc, w_emit, w_ret, w_frame, w_edges, w_err,
                   frames, last_frame, hold_trace, emitted>>
    /\ UNCHANGED ses_prev_read
    /\ UNCHANGED ctrl_reported

\* _emit_status on the stop() caller: compare, store, call back
StopEmitCheck ==
    /\ c_pc = "emit_check"
    /\ c_pc' = IF last_status = c_emit THEN "join" ELSE "emit_set"
    /\ c_emit' = IF last_status = c_emit THEN NoStatus ELSE c_emit
    /\ UNCHANGED <<seq, modes, max_gain, prev_buttons, controller, pub_sock,
                   last_status, pilot_stop, w_pc, w_emit, w_ret, w_frame,
                   w_edges, w_err, frames, last_frame, hold_trace, emitted,
                   stop_used>>
    /\ UNCHANGED ses_prev_read
    /\ UNCHANGED ctrl_reported

StopEmitSet ==
    /\ c_pc = "emit_set"
    /\ last_status' = c_emit
    /\ c_pc' = "emit_call"
    /\ UNCHANGED <<seq, modes, max_gain, prev_buttons, controller, pub_sock,
                   pilot_stop, w_pc, w_emit, w_ret, w_frame, w_edges, w_err,
                   c_emit, frames, last_frame, hold_trace, emitted,
                   stop_used>>
    /\ UNCHANGED ses_prev_read
    /\ UNCHANGED ctrl_reported

StopEmitCall ==
    /\ c_pc = "emit_call"
    /\ emitted' = Remember(emitted, c_emit)
    /\ c_pc' = "join"
    /\ c_emit' = NoStatus
    /\ UNCHANGED <<seq, modes, max_gain, prev_buttons, controller, pub_sock,
                   last_status, pilot_stop, w_pc, w_emit, w_ret, w_frame,
                   w_edges, w_err, frames, last_frame, hold_trace, stop_used>>
    /\ UNCHANGED ses_prev_read
    /\ UNCHANGED ctrl_reported

\* join(timeout=1.0): returns when the worker has exited or the second is over
StopJoin ==
    /\ c_pc = "join"
    /\ c_pc' = "close"
    /\ UNCHANGED <<seq, modes, max_gain, prev_buttons, controller, pub_sock,
                   last_status, pilot_stop, w_pc, w_emit, w_ret, w_frame,
                   w_edges, w_err, c_emit, frames, last_frame, hold_trace,
                   emitted, stop_used>>
    /\ UNCHANGED ses_prev_read
    /\ UNCHANGED ctrl_reported

StopClose ==
    /\ c_pc = "close"
    /\ controller' = "none"
    /\ pub_sock' = "none"
    /\ c_pc' = "idle"
    /\ UNCHANGED <<seq, modes, max_gain, prev_buttons, last_status,
                   pilot_stop, w_pc, w_emit, w_ret, w_frame, w_edges, w_err,
                   c_emit, frames, last_frame, hold_trace, emitted,
                   stop_used>>
    /\ UNCHANGED ses_prev_read
    /\ UNCHANGED ctrl_reported

\* --- the publish thread: _run_loop -----------------------------------------
WorkerEmit(st, ret) == w_emit' = st /\ w_ret' = ret /\ w_pc' = "emit_check"
Raise(e) == w_err' = e /\ w_pc' = "except"

RunInit ==
    /\ w_pc = "run_init"
    /\ pub_sock' = "open"
    /\ w_pc' = "open_initial"
    /\ UNCHANGED <<seq, modes, max_gain, prev_buttons, controller,
                   last_status, pilot_stop, w_emit, w_ret, w_frame, w_edges,
                   w_err, c_pc, c_emit, frames, last_frame, hold_trace,
                   emitted, stop_used>>
    /\ UNCHANGED ses_prev_read
    /\ UNCHANGED ctrl_reported

\* one pass of "while not stop and controller is None: try open"
OpenLoopPass(here, after) ==
    IF pilot_stop \/ controller # "none"
      THEN /\ w_pc' = after
           /\ UNCHANGED <<controller, prev_buttons, w_emit, w_ret,
                          ses_prev_read>>
      ELSE \/ /\ controller' = "open"
              /\ prev_buttons' = NoneButtons
              /\ ses_prev_read' = "none"
              /\ WorkerEmit(StatusConnected(max_gain), here)
           \/ /\ WorkerEmit(StatusDisconnected("no_controller"), here)
              /\ UNCHANGED <<controller, prev_buttons, ses_prev_read>>

OpenInitial ==
    /\ w_pc = "open_initial"
    /\ OpenLoopPass("open_initial", "tick")
    /\ UNCHANGED <<seq, modes, max_gain, pub_sock, last_status, pilot_stop,
                   w_frame, w_edges, w_err, c_pc, c_emit, frames, last_frame,
                   hold_trace, emitted, stop_used>>
    /\ UNCHANGED ctrl_reported

Reopen ==
    /\ w_pc = "reopen"
    /\ OpenLoopPass("reopen", "pace")
    /\ UNCHANGED <<seq, modes, max_gain, pub_sock, last_status, pilot_stop,
                   w_frame, w_edges, w_err, c_pc, c_emit, frames, last_frame,
                   hold_trace, emitted, stop_used>>
    /\ UNCHANGED ctrl_reported

\* _emit_status on the publish thread: compare, store, call back
WorkerEmitCheck ==
    /\ w_pc = "emit_check"
    /\ IF last_status = w_emit
         THEN w_pc' = w_ret /\ w_emit' = NoStatus /\ w_ret' = "idle"
         ELSE w_pc' = "emit_set" /\ UNCHANGED <<w_emit, w_ret>>
    /\ UNCHANGED <<seq, modes, max_gain, prev_buttons, controller, pub_sock,
                   last_status, pilot_stop, w_frame, w_edges, w_err, c_pc,
                   c_emit, frames, last_frame, hold_trace, emitted,
                   stop_used>>
    /\ UNCHANGED ses_prev_read
    /\ UNCHANGED ctrl_reported

WorkerEmitSet ==
    /\ w_pc = "emit_set"
    /\ last_status' = w_emit
    /\ w_pc' = "emit_call"
    /\ UNCHANGED <<seq, modes, max_gain, prev_buttons, controller, pub_sock,
                   pilot_stop, w_emit, w_ret, w_frame, w_edges, w_err, c_pc,
                   c_emit, frames, last_frame, hold_trace, emitted,
                   stop_used>>
    /\ UNCHANGED ses_prev_read
    /\ UNCHANGED ctrl_reported

WorkerEmitCall ==
    /\ w_pc = "emit_call"
    /\ emitted' = Remember(emitted, w_emit)
    /\ w_pc' = w_ret
    /\ w_emit' = NoStatus
    /\ w_ret' = "idle"
    /\ UNCHANGED <<seq, modes, max_gain, prev_buttons, controller, pub_sock,
                   last_status, pilot_stop, w_frame, w_edges, w_err, c_pc,
                   c_emit, frames, last_frame, hold_trace, stop_used>>
    /\ UNCHANGED ses_prev_read
    /\ ctrl_reported' = IF w_emit.controller \in {"connected", "disconnected"}
                           THEN w_emit.controller ELSE ctrl_reported

WorkerExit ==
    /\ w_pc = "tick"
    /\ pilot_stop
    /\ w_pc' = "done"
    /\ UNCHANGED <<seq, modes, max_gain, prev_buttons, controller, pub_sock,
                   last_status, pilot_stop, w_emit, w_ret, w_frame, w_edges,
                   w_err, c_pc, c_emit, frames, last_frame, hold_trace,
                   emitted, stop_used>>
    /\ UNCHANGED ses_prev_read
    /\ UNCHANGED ctrl_reported

\* the tick up to the read: assert, health check, read_once
TickFail ==
    /\ w_pc = "tick"
    /\ ~pilot_stop
    /\ Len(frames) < FrameBudget
    /\ \/ controller = "none" /\ Raise("assert")
       \/ controller # "none" /\ Raise("detached")
       \/ controller # "none" /\ Raise("read_error")
    /\ UNCHANGED <<seq, modes, max_gain, prev_buttons, controller, pub_sock,
                   last_status, pilot_stop, w_emit, w_ret, w_frame, w_edges,
                   c_pc, c_emit, frames, last_frame, hold_trace, emitted,
                   stop_used>>
    /\ UNCHANGED ses_prev_read
    /\ UNCHANGED ctrl_reported

\* the tick from a successful read to the Y-button gain step
TickRead ==
    /\ w_pc = "tick"
    /\ ~pilot_stop
    /\ Len(frames) < FrameBudget
    /\ controller # "none"
    /\ \E cur \in SUBSET Buttons :
         LET edges == ComputeEdges(prev_buttons, cur)
             dh == IF edges[DEPTH_HOLD_TOGGLE_BUTTON] = "down"
                     THEN ~modes.depth_hold ELSE modes.depth_hold
             g == IF edges["y"] = "down"
                    THEN AdjustMaxGain(max_gain, MaxGainStep) ELSE max_gain
         IN /\ w_frame' = [seq |-> seq, buttons |-> cur]
            /\ w_edges' = edges
            /\ max_gain' = g
            /\ modes' = [depth_hold |-> dh,
                         max_gain |-> IF edges["y"] = "down" /\ MaxGainStep # 0
                                        THEN g ELSE modes.max_gain]
            /\ IF g # max_gain
                 THEN WorkerEmit(StatusConnected(g), "tick_a")
                 ELSE w_pc' = "tick_a" /\ UNCHANGED <<w_emit, w_ret>>
    /\ UNCHANGED <<seq, prev_buttons, controller, pub_sock, last_status,
                   pilot_stop, w_err, c_pc, c_emit, frames, last_frame,
                   hold_trace, emitted, stop_used>>
    /\ ses_prev_read' = IF DEPTH_HOLD_TOGGLE_BUTTON \in w_frame'.buttons
                           THEN "down" ELSE "up"
    /\ UNCHANGED ctrl_reported

\* the A-button gain step
TickA ==
    /\ w_pc = "tick_a"
    /\ LET g == IF w_edges["a"] = "down"
                  THEN AdjustMaxGain(max_gain, 0 - MaxGainStep) ELSE max_gain
       IN /\ max_gain' = g
          /\ modes' = [modes EXCEPT !.max_gain =
                         IF w_edges["a"] = "down" /\ MaxGainStep # 0
                           THEN g ELSE @]
          /\ IF g # max_gain
               THEN WorkerEmit(StatusConnected(g), "tick_send")
               ELSE w_pc' = "tick_send" /\ UNCHANGED <<w_emit, w_ret>>
    /\ UNCHANGED <<seq, prev_buttons, controller, pub_sock, last_status,
                   pilot_stop, w_frame, w_edges, w_err, c_pc, c_emit, frames,
                   last_frame, hold_trace, emitted, stop_used>>
    /\ UNCHANGED ses_prev_read
    /\ UNCHANGED ctrl_reported

AfterSendEscalate(out) ==
    CASE out = "sent" -> "pace"
      [] OTHER -> "except"

\* where the loop goes after send_string(..., NOBLOCK)
AfterSend(out) ==
    CASE out = "sent" -> "pace"
      [] out = "again" -> "tick"
      [] OTHER -> "except"

\* modes, prev_buttons, seq += 1 and the non-blocking send
TickSend ==
    /\ w_pc = "tick_send"
    /\ modes' = [modes EXCEPT !.max_gain = max_gain]
    /\ prev_buttons' = w_frame.buttons
    /\ seq' = SeqAfterTick(seq)
    /\ \E out \in (IF pub_sock = "none" THEN {"error"}
                                       ELSE {"sent", "again", "error"}) :
         LET fm == FrameModes(modes', max_gain, w_edges)
             built == [seq |-> w_frame.seq,
                       depth_hold |-> fm.depth_hold,
                       max_gain |-> fm.max_gain,
                       hold_edge |-> (w_edges[DEPTH_HOLD_TOGGLE_BUTTON] = "down"),
                       outcome |-> out]
         IN /\ frames' = Append(frames, [seq |-> built.seq, outcome |-> out])
            /\ last_frame' = built
            /\ hold_trace' = HoldTrace(hold_trace, built)
            /\ w_pc' = AfterSend(out)
            /\ w_err' = IF AfterSend(out) = "except" THEN "send_error" ELSE w_err
    /\ w_frame' = NoFrame
    /\ w_edges' = NoEdges
    /\ UNCHANGED <<max_gain, controller, pub_sock, last_status, pilot_stop,
                   w_emit, w_ret, c_pc, c_emit, emitted, stop_used>>
    /\ UNCHANGED ses_prev_read
    /\ UNCHANGED ctrl_reported

\* where the publish thread goes on after the report of the handler
AfterReportReturn == "done"
AfterReportResume == "pace"
AfterReport == "close_ctrl"

\* except Exception: report, close the controller, then reopen
Except ==
    /\ w_pc = "except"
    /\ WorkerEmit(StatusDisconnected(w_err), AfterReport)
    /\ UNCHANGED <<seq, modes, max_gain, prev_buttons, controller, pub_sock,
                   last_status, pilot_stop, w_frame, w_edges, w_err, c_pc,
                   c_emit, frames, last_frame, hold_trace, emitted,
                   stop_used>>
    /\ UNCHANGED ses_prev_read
    /\ UNCHANGED ctrl_reported

CloseCtrl ==
    /\ w_pc = "close_ctrl"
    /\ controller' = "none"
    /\ prev_buttons' = NoneButtons
    /\ w_err' = ""
    /\ w_frame' = NoFrame
    /\ w_edges' = NoEdges
    /\ w_pc' = "reopen"
    /\ UNCHANGED <<seq, modes, max_gain, pub_sock, last_status, pilot_stop,
                   w_emit, w_ret, c_pc, c_emit, frames, last_frame,
                   hold_trace, emitted, stop_used>>
    /\ UNCHANGED ses_prev_read
    /\ UNCHANGED ctrl_reported

Pace ==
    /\ w_pc = "pace"
    /\ w_pc' = "tick"
    /\ UNCHANGED <<seq, modes, max_gain, prev_buttons, controller, pub_sock,
                   last_status, pilot_stop, w_emit, w_ret, w_frame, w_edges,
                   w_err, c_pc, c_emit, frames, last_frame, hold_trace,
                   emitted, stop_used>>
    /\ UNCHANGED ses_prev_read
    /\ UNCHANGED ctrl_reported

PilotNext ==
    \/ PilotStart \/ PilotStop
    \/ StopEmitCheck \/ StopEmitSet \/ StopEmitCall \/ StopJoin \/ StopClose
    \/ RunInit \/ OpenInitial \/ Reopen
    \/ WorkerEmitCheck \/ WorkerEmitSet \/ WorkerEmitCall
    \/ WorkerExit \/ TickFail \/ TickRead \/ TickA \/ TickSend
    \/ Except \/ CloseCtrl \/ Pace

\* ========================================================================
\* Telemetry downlink: SensorSubscriberService
\*
\* The timestamps of _run are held as ages: start_age is time.time() -
\* start_ts, rx_age is time.time() - last_rx.  Storing time.time() in one of
\* them sets its age to 0 and the passing of d milliseconds adds d to each.
\* An age is only compared with its timeout, so it stops growing one poll
\* interval past that timeout;
\* start_ts is read only while saw_any is false and last_rx only once it is
\* true, so the age that is not read is held at 0.  since_make is the time
\* since the socket in self._sock was made and make_site the place that
\* made it ("first" is the start of _run); both are kept while saw_any is
\* false, the time for a socket made at the start or by the initial
\* reconnect.
\* ========================================================================
NoSock == 0
SockIds == 1..MaxSocks
Messages == {"good", "bad_json", "callback_raises"}
NoAge == 0 - 1
AgeCap(timeout) == timeout + poll_ms

SensorInit ==
    /\ sub_sock = NoSock
    /\ open_socks = {}
    /\ poller = {}
    /\ sensor_stop = FALSE
    /\ s_pc = "idle"
    /\ sc_pc = "idle"
    /\ start_age = 0
    /\ rx_age = 0
    /\ saw_any = FALSE
    /\ s_old = NoSock
    /\ s_site = "-"
    /\ inbox = <<>>
    /\ faults = 0
    /\ since_reset = NoAge
    /\ reset_gap = NoAge
    /\ since_make = 0
    /\ make_site = "-"
    /\ s_read = <<>>
    /\ s_dispatched = <<>>

SensorAlive == s_pc \notin {"idle", "done", "crashed"}

\* ctx.socket(zmq.SUB): a socket object distinct from every one still
\* referenced
FreeSocks == SockIds \ (open_socks \cup poller \cup {sub_sock, s_old})
NewSock == CHOOSE i \in FreeSocks : \A j \in FreeSocks : i <= j

\* an age after d more milliseconds
Older(age, d, timeout) ==
    IF age = NoAge THEN NoAge ELSE Min2(AgeCap(timeout), age + d)
StartOlder(d) == Older(start_age, d, initial_reconnect_ms)
RxOlder(d) == Older(rx_age, d, stale_reconnect_ms)
ResetOlder(d) == Older(since_reset, d, stale_reconnect_ms)
MakeOlder(d) ==
    IF make_site \in {"first", "initial"}
      THEN Older(since_make, d, initial_reconnect_ms)
      ELSE 0

\* d milliseconds pass in the receive thread (poll, sleep)
Elapse(d) ==
    /\ start_age' = IF saw_any THEN 0 ELSE StartOlder(d)
    /\ rx_age' = IF saw_any THEN RxOlder(d) ELSE 0
    /\ since_reset' = ResetOlder(d)
    /\ since_make' = IF saw_any THEN 0 ELSE MakeOlder(d)

\* "(now - last_rx) > stale_reconnect_s"
StaleDue(age) == age > stale_reconnect_ms
\* "(now - start_ts) > initial_reconnect_s"
InitialDueAfterStale(age) == age > stale_reconnect_ms
InitialDue(age) == age > initial_reconnect_ms

\* --- the controlling thread: start() and stop() ---------------------------
SensorStart ==
    /\ sc_pc = "idle"
    /\ ~SensorAlive
    /\ sensor_stop' = FALSE
    /\ s_pc' = "make_first"
    /\ UNCHANGED <<sub_sock, open_socks, poller, sc_pc, start_age, rx_age,
                   saw_any, s_old, s_site, inbox, faults, since_reset,
                   reset_gap>>
    /\ UNCHANGED drainLog
    /\ UNCHANGED makeLog

SensorStop ==
    /\ sc_pc = "idle"
    /\ sensor_stop' = TRUE
    /\ sc_pc' = "join"
    /\ UNCHANGED <<sub_sock, open_socks, poller, s_pc, start_age, rx_age,
                   saw_any, s_old, s_site, inbox, faults, since_reset,
                   reset_gap>>
    /\ UNCHANGED drainLog
    /\ UNCHANGED makeLog

\* join(timeout=1.0), then _close_sock()
SensorStopClose ==
    /\ sc_pc = "join"
    /\ sub_sock' = NoSock
    /\ open_socks' = open_socks \ {sub_sock}
    /\ sc_pc' = "idle"
    /\ UNCHANGED <<poller, sensor_stop, s_pc, start_age, rx_age, saw_any,
                   s_old, s_site, inbox, faults, since_reset, reset_gap>>
    /\ UNCHANGED drainLog
    /\ UNCHANGED makeLog

\* --- the receive thread: _run ------------------------------------------------
\* "old = self._sock; self._reset_sock()" entered at one of the four sites
BeginReset(site) ==
    /\ s_old' = sub_sock
    /\ s_site' = site
    /\ s_pc' = "reset_close"

\* _run up to the loop: first socket, poller, start_ts, last_rx, saw_any
SensorMakeFirst ==
    /\ s_pc = "make_first"
    /\ \/ /\ FreeSocks # {}
          /\ sub_sock' = NewSock
          /\ open_socks' = open_socks \cup {NewSock}
          /\ poller' = {NewSock}
          /\ start_age' = 0
          /\ rx_age' = 0
          /\ saw_any' = FALSE
          /\ since_reset' = NoAge
          /\ reset_gap' = NoAge
          /\ s_pc' = "poll"
          /\ UNCHANGED faults
       \/ /\ faults < MaxFaults
          /\ faults' = faults + 1
          /\ s_pc' = "crashed"
          /\ UNCHANGED <<sub_sock, open_socks, poller, start_age, rx_age,
                         saw_any, since_reset, reset_gap>>
    /\ UNCHANGED <<sensor_stop, sc_pc, s_old, s_site, inbox>>
    /\ UNCHANGED drainLog
    /\ IF s_pc' = "poll"
         THEN since_make' = 0 /\ make_site' = "first"
         ELSE UNCHANGED makeLog

\* "while not self._stop.is_set()" is false: _close_sock() and return
SensorLoopExit ==
    /\ s_pc = "poll"
    /\ sensor_stop
    /\ sub_sock' = NoSock
    /\ open_socks' = open_socks \ {sub_sock}
    /\ s_pc' = "done"
    /\ UNCHANGED <<poller, sensor_stop, sc_pc, start_age, rx_age, saw_any,
                   s_old, s_site, inbox, faults, since_reset, reset_gap>>
    /\ UNCHANGED drainLog
    /\ UNCHANGED makeLog

\* poll(poll_ms) returns nothing for this socket: the staleness checks
SensorPollTimeout ==
    /\ s_pc = "poll"
    /\ ~sensor_stop
    /\ IF saw_any
         THEN /\ start_age' = 0
              /\ rx_age' = RxOlder(poll_ms)
              /\ IF StaleDue(rx_age')
                   THEN /\ BeginReset("stale")
                        /\ reset_gap' = ResetOlder(poll_ms)
                        /\ since_reset' = 0
                   ELSE /\ since_reset' = ResetOlder(poll_ms)
                        /\ UNCHANGED <<s_pc, s_old, s_site, reset_gap>>
         ELSE /\ rx_age' = 0
              /\ since_reset' = ResetOlder(poll_ms)
              /\ UNCHANGED reset_gap
              /\ IF InitialDue(StartOlder(poll_ms))
                   THEN /\ start_age' = 0
                        /\ BeginReset("initial")
                   ELSE /\ start_age' = StartOlder(poll_ms)
                        /\ UNCHANGED <<s_pc, s_old, s_site>>
    /\ UNCHANGED <<sub_sock, open_socks, poller, sensor_stop, sc_pc, saw_any,
                   inbox, faults>>
    /\ UNCHANGED drainLog
    /\ since_make' = IF saw_any THEN 0 ELSE MakeOlder(poll_ms)
    /\ UNCHANGED make_site

\* poll(poll_ms) reports the socket readable: the backlog to drain
SensorPollReadable ==
    /\ s_pc = "poll"
    /\ ~sensor_stop
    /\ sub_sock # NoSock
    /\ sub_sock \in poller
    /\ \E dt \in {0, poll_ms \div 2} :
          /\ start_age' = IF saw_any THEN 0 ELSE StartOlder(dt)
          /\ rx_age' = IF saw_any THEN RxOlder(dt) ELSE 0
          /\ since_make' = IF saw_any THEN 0 ELSE MakeOlder(dt)
    /\ \E n \in 1..MaxBatch : \E batch \in [1..n -> Messages] : inbox' = batch
    /\ since_reset' = NoAge
    /\ reset_gap' = NoAge
    /\ s_pc' = "drain"
    /\ UNCHANGED <<sub_sock, open_socks, poller, sensor_stop, sc_pc, saw_any,
                   s_old, s_site, faults>>
    /\ UNCHANGED drainLog
    /\ UNCHANGED make_site

\* poll raises zmq.ZMQError: the outer handler resets the socket
SensorPollError ==
    /\ s_pc = "poll"
    /\ ~sensor_stop
    /\ faults < MaxFaults
    /\ faults' = faults + 1
    /\ BeginReset("outer")
    /\ UNCHANGED <<sub_sock, open_socks, poller, sensor_stop, sc_pc,
                   start_age, rx_age, saw_any, inbox, since_reset, reset_gap>>
    /\ UNCHANGED drainLog
    /\ UNCHANGED makeLog

\* _reset_sock, first half: _close_sock() and the 50 ms sleep
SensorResetClose ==
    /\ s_pc = "reset_close"
    /\ sub_sock' = NoSock
    /\ open_socks' = open_socks \ {sub_sock}
    /\ Elapse(reset_sleep_ms)
    /\ s_pc' = "reset_make"
    /\ UNCHANGED <<poller, sensor_stop, sc_pc, saw_any, s_old, s_site, inbox,
                   faults, reset_gap>>
    /\ UNCHANGED drainLog
    /\ UNCHANGED make_site

\* where a zmq.ZMQError raised by _make_sock inside _reset_sock lands: from
\* the try body and from the recv handler in the outer handler, which resets
\* again; from the outer handler itself it leaves _run
AfterMakeSockError(site) == IF site = "outer" THEN "crashed" ELSE "reset_close"

\* _reset_sock, second half: self._sock = self._make_sock()
SensorResetMake ==
    /\ s_pc = "reset_make"
    /\ \/ /\ FreeSocks # {}
          /\ sub_sock' = NewSock
          /\ open_socks' = open_socks \cup {NewSock}
          /\ s_pc' = "register"
          /\ UNCHANGED <<s_old, s_site, faults>>
       \/ /\ faults < MaxFaults
          /\ faults' = faults + 1
          /\ s_pc' = AfterMakeSockError(s_site)
          /\ s_old' = IF s_site = "outer" THEN s_old ELSE sub_sock
          /\ s_site' = "outer"
          /\ UNCHANGED <<sub_sock, open_socks>>
    /\ UNCHANGED <<poller, sensor_stop, sc_pc, start_age, rx_age, saw_any,
                   inbox, since_reset, reset_gap>>
    /\ UNCHANGED drainLog
    /\ IF s_pc' = "register" /\ ~saw_any
         THEN since_make' = 0 /\ make_site' = s_site
         ELSE UNCHANGED makeLog

\* poller.unregister(old) (errors ignored); poller.register(self._sock)
SensorRegister ==
    /\ s_pc = "register"
    /\ poller' = (poller \ {s_old}) \cup {sub_sock}
    /\ s_old' = NoSock
    /\ s_site' = "-"
    /\ inbox' = <<>>
    /\ s_pc' = "poll"
    /\ UNCHANGED <<sub_sock, open_socks, sensor_stop, sc_pc, start_age,
                   rx_age, saw_any, faults, since_reset, reset_gap>>
    /\ UNCHANGED drainLog
    /\ UNCHANGED makeLog

\* json.loads(raw) returns
JsonLoadsAny(msg) == TRUE
JsonLoads(msg) == msg # "bad_json"

\* where the drain goes after self.on_message(msg): an exception of the
\* callback is caught around the call
AfterCallbackRaise(msg) == IF msg = "callback_raises" THEN "poll" ELSE "drain"
AfterCallback(msg) == "drain"

\* one pass of the drain loop: recv_string(NOBLOCK), json.loads, dispatch
SensorDrain ==
    /\ s_pc = "drain"
    /\ IF sub_sock = NoSock
         THEN \* AttributeError on None: "except Exception", sleep, loop
              /\ Elapse(reset_sleep_ms)
              /\ inbox' = <<>>
              /\ s_read' = <<>>
              /\ s_dispatched' = <<>>
              /\ s_pc' = "poll"
              /\ UNCHANGED <<saw_any, reset_gap, make_site>>
         ELSE IF inbox = <<>>
         THEN \* zmq.Again: break
              /\ s_pc' = "poll"
              /\ s_read' = <<>>
              /\ s_dispatched' = <<>>
              /\ UNCHANGED <<inbox, start_age, rx_age, saw_any, since_reset,
                             reset_gap, makeLog>>
         ELSE IF ~JsonLoads(Head(inbox))
         THEN \* bad json: continue
              /\ inbox' = Tail(inbox)
              /\ s_read' = Append(s_read, Head(inbox))
              /\ UNCHANGED <<s_pc, s_dispatched, start_age, rx_age, saw_any,
                             since_reset, reset_gap, makeLog>>
         ELSE /\ saw_any' = TRUE
              /\ rx_age' = 0
              /\ start_age' = 0
              /\ since_make' = 0
              /\ make_site' = "-"
              /\ since_reset' = NoAge
              /\ reset_gap' = NoAge
              /\ s_pc' = AfterCallback(Head(inbox))
              /\ IF s_pc' = "drain"
                   THEN /\ inbox' = Tail(inbox)
                        /\ s_read' = Append(s_read, Head(inbox))
                        /\ s_dispatched' = Append(s_dispatched, Head(inbox))
                   ELSE /\ inbox' = <<>>
                        /\ s_read' = <<>>
                        /\ s_dispatched' = <<>>
    /\ UNCHANGED <<sub_sock, open_socks, poller, sensor_stop, sc_pc, s_old,
                   s_site, faults>>

\* recv_string raises zmq.ZMQError: reset in the recv handler, then break
SensorRecvError ==
    /\ s_pc = "drain"
    /\ sub_sock # NoSock
    /\ faults < MaxFaults
    /\ faults' = faults + 1
    /\ BeginReset("recv")
    /\ s_read' = <<>>
    /\ s_dispatched' = <<>>
    /\ UNCHANGED <<sub_sock, open_socks, poller, sensor_stop, sc_pc,
                   start_age, rx_age, saw_any, inbox, since_reset, reset_gap>>
    /\ UNCHANGED makeLog

SensorNext ==
    \/ SensorStart \/ SensorStop \/ SensorStopClose
    \/ SensorMakeFirst \/ SensorLoopExit
    \/ SensorPollTimeout \/ SensorPollReadable \/ SensorPollError
    \/ SensorResetClose \/ SensorResetMake \/ SensorRegister
    \/ SensorDrain \/ SensorRecvError

\* ========================================================================
\* Video control: ROVStreams
\*
\* The REQ socket alternates strictly between send and recv: req_state is
\* "awaiting" from a send until its reply is received.  wire is the exchange
\* in flight: the request on its way, the remote's reply, or "lost" when no
\* reply will ever come.  The remote is the ROV and answers as it likes.
\* ========================================================================
NoName == "-"
Names == {"cam0", "cam1"}
Replies == {"ok", "exists", "error"}
NoCall == [op |-> "-", name |-> NoName]
NoResult == [kind |-> "none", stage |-> "-"]
Request(cmd, name) == [cmd |-> cmd, name |-> name]

RpcInit ==
    /\ req_state = "ready"
    /\ wire = "empty"
    /\ rpc_pc = "idle"
    /\ rpc_call = NoCall
    /\ rpc_stage = "-"
    /\ rpc_sent = <<>>
    /\ rpc_replies = <<>>
    /\ rpc_result = NoResult
    /\ rpc_calls = 0
    /\ rpc_faults = 0

\* the command _call sends at each stage of the public method
StageCmd(stage) == IF stage = "stop" THEN "stop_stream" ELSE rpc_call.op

\* the public method returns or raises
Finish(kind) ==
    /\ rpc_result' = [kind |-> kind, stage |-> rpc_stage]
    /\ rpc_stage' = "-"
    /\ rpc_pc' = "idle"

\* a caller enters start_stream(**cfg) or stop_stream(name)
RpcBegin ==
    /\ rpc_pc = "idle"
    /\ rpc_calls < MaxCalls
    /\ rpc_calls' = rpc_calls + 1
    /\ \/ \E n \in Names \cup {NoName} :
             rpc_call' = [op |-> "start_stream", name |-> n]
       \/ \E n \in Names : rpc_call' = [op |-> "stop_stream", name |-> n]
    /\ rpc_stage' = "first"
    /\ rpc_sent' = <<>>
    /\ rpc_replies' = <<>>
    /\ rpc_result' = NoResult
    /\ rpc_pc' = "send"
    /\ UNCHANGED <<req_state, wire, rpc_faults>>

\* _call: self.sock.send_json(...)
RpcSend ==
    /\ rpc_pc = "send"
    /\ IF req_state = "awaiting"
         THEN \* a REQ socket that still owes a recv refuses to send
              /\ Finish("zmq_error")
              /\ UNCHANGED <<req_state, wire, rpc_sent>>
         ELSE /\ rpc_sent' = Append(rpc_sent,
                                    Request(StageCmd(rpc_stage), rpc_call.name))
              /\ req_state' = "awaiting"
              /\ wire' = "request"
              /\ rpc_pc' = "recv"
              /\ UNCHANGED <<rpc_stage, rpc_result>>
    /\ UNCHANGED <<rpc_call, rpc_replies, rpc_calls, rpc_faults>>

\* the remote answers the request
RemoteReply ==
    /\ wire = "request"
    /\ \E r \in Replies : wire' = r
    /\ UNCHANGED <<req_state, rpc_pc, rpc_call, rpc_stage, rpc_sent,
                   rpc_replies, rpc_result, rpc_calls, rpc_faults>>

\* the request or its reply is lost: the remote is down or unreachable
RemoteLose ==
    /\ wire = "request"
    /\ wire' = "lost"
    /\ UNCHANGED <<req_state, rpc_pc, rpc_call, rpc_stage, rpc_sent,
                   rpc_replies, rpc_result, rpc_calls, rpc_faults>>

\* what start_stream does with the RuntimeError of a failed _call: the stage
\* it goes on with, or "-" when the error is raised to the caller
StageAfterError(stage, reply, name) ==
    IF stage = "first" /\ rpc_call.op = "start_stream" /\ reply = "exists"
      THEN IF name # NoName THEN "stop" ELSE "second"
      ELSE "-"

\* what the public method does with the data of a successful _call
StageAfterOk(stage) == IF stage = "stop" THEN "second" ELSE "-"

\* _call: reply = self.sock.recv_json(), which returns once a reply is
\* there, and the rest of the public method up to its next send
RpcRecv ==
    /\ rpc_pc = "recv"
    /\ wire \in Replies
    /\ req_state' = "ready"
    /\ wire' = "empty"
    /\ rpc_replies' = Append(rpc_replies, wire)
    /\ LET next == IF wire = "ok"
                     THEN StageAfterOk(rpc_stage)
                     ELSE StageAfterError(rpc_stage, wire, rpc_call.name)
       IN  IF next = "-"
             THEN Finish(IF wire = "ok" THEN "data" ELSE "remote_error")
             ELSE /\ rpc_stage' = next
                  /\ rpc_pc' = "send"
                  /\ UNCHANGED rpc_result
    /\ UNCHANGED <<rpc_call, rpc_sent, rpc_calls, rpc_faults>>

\* send_json or recv_json raises zmq.ZMQError: it leaves _call and the
\* public method; self.sock stays as it is
RpcTransportError ==
    /\ rpc_pc \in {"send", "recv"}
    /\ rpc_faults < MaxRpcFaults
    /\ rpc_faults' = rpc_faults + 1
    /\ Finish("zmq_error")
    /\ UNCHANGED <<req_state, wire, rpc_call, rpc_sent, rpc_replies,
                   rpc_calls>>

RpcCaller == RpcBegin \/ RpcSend \/ RpcRecv
Remote == RemoteReply \/ RemoteLose
RpcNext == RpcCaller \/ Remote \/ RpcTransportError

\* ========================================================================
\* Video downlink: ReceiverProcess in raw mode
\*
\* A frame is known by the number of its store, 1, 2, ...; its bytes are one
\* BGR pixel that differs from frame to frame.  start() and stop() are made
\* by the owner of the receiver, which is also the one caller of read_frame
\* (RemoteCv2Camera): start() comes between two read_frame calls.
\* ========================================================================
NoBytes == <<>>
NoStored == 0
VALID_ORDERS == {"BGR", "RGB", "BRG", "RBG", "GBR", "GRB"}
FrameBytes(id) == <<3 * id, 3 * id + 1, 3 * id + 2>>
NoRead == [snap |-> NoStored, out |-> NoStored, before |-> NoStored,
           bytes |-> NoBytes]

RxInit ==
    /\ proc = "none"
    /\ stop_reader = FALSE
    /\ latest_frame = NoStored
    /\ latest_seq = 0
    /\ last_delivered_seq = 0
    /\ channel_order = "BGR"
    /\ readers = 0
    /\ rf_pc = "idle"
    /\ rf_frame = NoStored
    /\ rf_seq = 0
    /\ stored = 0
    /\ rx_returned = <<>>
    /\ rx_last = NoRead
    /\ old_readers = 0
    /\ old_frames = {}

\* start(): nothing when the process runs; else reset the frame bookkeeping,
\* spawn gst-launch and a reader thread
RxStart ==
    /\ rf_pc = "idle"
    /\ proc # "running"
    /\ readers < MaxReaders
    /\ latest_frame' = NoStored
    /\ latest_seq' = 0
    /\ last_delivered_seq' = 0
    /\ proc' = "running"
    /\ stop_reader' = FALSE
    /\ readers' = readers + 1
    /\ old_readers' = readers
    /\ UNCHANGED <<channel_order, rf_pc, rf_frame, rf_seq, stored,
                   rx_returned, rx_last, old_frames>>

\* stop(): nothing without a process; else end it and set the reader's flag
RxStop ==
    /\ proc # "none"
    /\ proc' = "none"
    /\ stop_reader' = TRUE
    /\ UNCHANGED <<latest_frame, latest_seq, last_delivered_seq,
                   channel_order, readers, rf_pc, rf_frame, rf_seq, stored,
                   rx_returned, rx_last>>
    /\ UNCHANGED rxGhost

\* gst-launch ends on its own
RxProcExit ==
    /\ proc = "running"
    /\ proc' = "exited"
    /\ UNCHANGED <<stop_reader, latest_frame, latest_seq, last_delivered_seq,
                   channel_order, readers, rf_pc, rf_frame, rf_seq, stored,
                   rx_returned, rx_last>>
    /\ UNCHANGED rxGhost

\* update(channel_order=...) in raw mode: applied live, no restart
RxUpdateOrder ==
    /\ \E o \in VALID_ORDERS : o # channel_order /\ channel_order' = o
    /\ UNCHANGED <<proc, stop_reader, latest_frame, latest_seq,
                   last_delivered_seq, readers, rf_pc, rf_frame, rf_seq,
                   stored, rx_returned, rx_last>>
    /\ UNCHANGED rxGhost

\* _raw_reader_loop: read_exact gave a frame, stored under _raw_buffer_lock;
\* with the stop flag set the loop ends after this store.  The storing
\* thread is the reader of the current process or, old, a reader that an
\* earlier start() spawned and that reads the pipe of its own process
RawReaderStore ==
    /\ readers > 0
    /\ stored < MaxStored
    /\ stored' = stored + 1
    /\ latest_frame' = stored + 1
    /\ latest_seq' = latest_seq + 1
    /\ readers' = IF stop_reader THEN readers - 1 ELSE readers
    /\ \E old \in BOOLEAN :
          /\ IF old THEN old_readers > 0 ELSE readers > old_readers
          /\ old_frames' = IF old THEN old_frames \cup {stored + 1}
                                  ELSE old_frames
          /\ old_readers' = IF old /\ stop_reader THEN old_readers - 1
                                                  ELSE old_readers
    /\ UNCHANGED <<proc, stop_reader, last_delivered_seq, channel_order,
                   rf_pc, rf_frame, rf_seq, rx_returned, rx_last>>

\* _raw_reader_loop ends: the stop flag is set, or its pipe is at end of
\* stream because its process is gone
RawReaderExit ==
    /\ readers > 0
    /\ stop_reader \/ proc # "running" \/ readers > 1
    /\ readers' = readers - 1
    /\ \E old \in BOOLEAN :
          /\ IF old THEN old_readers > 0
                    ELSE readers > old_readers
                         /\ (stop_reader \/ proc # "running")
          /\ old_readers' = IF old THEN old_readers - 1 ELSE old_readers
    /\ UNCHANGED old_frames
    /\ UNCHANGED <<proc, stop_reader, latest_frame, latest_seq,
                   last_delivered_seq, channel_order, stored, rf_pc, rf_frame,
                   rf_seq, rx_returned, rx_last>>

\* read_frame, first half: frame and seq copied under _raw_buffer_lock
ReadFrameSnapshot ==
    /\ rf_pc = "idle"
    /\ rf_frame' = latest_frame
    /\ rf_seq' = latest_seq
    /\ rf_pc' = "gate"
    /\ UNCHANGED <<proc, stop_reader, latest_frame, latest_seq,
                   last_delivered_seq, channel_order, readers, stored,
                   rx_returned, rx_last>>
    /\ UNCHANGED rxGhost

\* the channel reorder of read_frame on one BGR pixel
Reorder(order, px) ==
    CASE order = "BGR" -> px
      [] order = "RGB" -> <<px[3], px[2], px[1]>>
      [] order = "BRG" -> <<px[1], px[3], px[2]>>
      [] order = "RBG" -> <<px[3], px[1], px[2]>>
      [] order = "GBR" -> <<px[2], px[1], px[3]>>
      [] order = "GRB" -> <<px[2], px[3], px[1]>>

\* the frame the caller got last, NoStored before the first
LastReturned ==
    IF rx_returned = <<>> THEN NoStored ELSE rx_returned[Len(rx_returned)]

\* "self._last_delivered_seq = seq"
DeliveredKept(seen) == last_delivered_seq
Delivered(seen) == seen

\* read_frame, second half: the freshness gate, the delivered mark and the
\* channel order
ReadFrameGate ==
    /\ rf_pc = "gate"
    /\ IF rf_frame = NoStored \/ rf_seq = last_delivered_seq
         THEN /\ rx_last' = [snap |-> rf_frame, out |-> NoStored,
                             before |-> LastReturned, bytes |-> NoBytes]
              /\ UNCHANGED <<last_delivered_seq, rx_returned>>
         ELSE /\ last_delivered_seq' = Delivered(rf_seq)
              /\ rx_returned' = Append(rx_returned, rf_frame)
              /\ rx_last' = [snap |-> rf_frame, out |-> rf_frame,
                             before |-> LastReturned,
                             bytes |-> Reorder(channel_order,
                                               FrameBytes(rf_frame))]
    /\ rf_pc' = "idle"
    /\ rf_frame' = NoStored
    /\ rf_seq' = 0
    /\ UNCHANGED <<proc, stop_reader, latest_frame, latest_seq,
                   channel_order, readers, stored>>
    /\ UNCHANGED rxGhost

RxNext ==
    \/ RxStart \/ RxStop \/ RxProcExit \/ RxUpdateOrder
    \/ RawReaderStore \/ RawReaderExit
    \/ ReadFrameSnapshot \/ ReadFrameGate

\* ========================================================================
\* Link health: MainWindow._handle_sensor_msg_on_ui and _update_link_status
\*
\* Times are in milliseconds.  hb_seen says that _last_hb_ts and
\* _prev_hb_rx_ts are set, sensor_seen that _last_sensor_ts is.  The ages
\* "now - timestamp" are inputs of the update.  link_trace keeps the last
\* MaxSamples updates made under the current period estimate.
\* ========================================================================
NoEma == 0 - 1
NoLinkAge == 0 - 1
\* gaps between two heartbeats, below, inside and above the accepted range
HbGaps == {40, 100, 1000, 6000}
LinkAges == {400, 950, 1500, 1600, 3400}

LinkInit ==
    /\ link_state_last = "NO DATA"
    /\ hb_period_ema_ms = NoEma
    /\ hb_seen = FALSE
    /\ sensor_seen = FALSE
    /\ hb_count = 0
    /\ link_trace = <<>>

\* "if 0.05 < dt < 10.0": the smoothed heartbeat period after a gap of dt
EmaAfter(ema, dt) ==
    IF 50 < dt /\ dt < 10000
      THEN IF ema = NoEma THEN dt ELSE (8 * ema + 2 * dt) \div 10
      ELSE ema

\* _handle_sensor_msg_on_ui with a heartbeat message
OnHeartbeat ==
    /\ hb_count < MaxHb
    /\ hb_count' = hb_count + 1
    /\ \E dt \in HbGaps :
          hb_period_ema_ms' = IF hb_seen
                                THEN EmaAfter(hb_period_ema_ms, dt)
                                ELSE hb_period_ema_ms
    /\ hb_seen' = TRUE
    /\ link_trace' = IF hb_period_ema_ms' = hb_period_ema_ms
                       THEN link_trace
                       ELSE <<>>
    /\ UNCHANGED <<link_state_last, sensor_seen>>

\* _handle_sensor_msg_on_ui with any other sensor message
OnSensorMsg ==
    /\ ~sensor_seen
    /\ sensor_seen' = TRUE
    /\ UNCHANGED <<link_state_last, hb_period_ema_ms, hb_seen, hb_count,
                   link_trace>>

\* hb_period: 1.0 without an estimate, else the estimate within [0.2, 5.0]
HbPeriod(ema) == IF ema = NoEma THEN 1000 ELSE Max2(200, Min2(5000, ema))

\* the thresholds, each times 100: max(0.9, 1.35 p), max(2.5, 3.25 p), 0.20 p
OkTh100(p) == Max2(90000, 135 * p)
WarnTh100(p) == Max2(250000, 325 * p)
NoMargin100(p) == 0
Margin100(p) == 20 * p

\* "Start with nominal thresholds"
Nominal(age, p) ==
    IF 100 * age < OkTh100(p) THEN "OK"
    ELSE IF 100 * age < WarnTh100(p) THEN "WARN"
    ELSE "LOST"

\* "Hysteresis based on previous state"
LinkStatus(prev, age, p) ==
    IF age = NoLinkAge THEN "NO DATA"
    ELSE IF prev = "OK" /\ 100 * age < OkTh100(p) + Margin100(p) THEN "OK"
    ELSE IF prev = "WARN" /\ 100 * age < OkTh100(p) + Margin100(p) THEN "OK"
    ELSE IF prev = "WARN" /\ 100 * age < WarnTh100(p) + Margin100(p)
      THEN "WARN"
    ELSE IF prev = "LOST" /\ 100 * age < WarnTh100(p) - Margin100(p)
      THEN IF 100 * age >= OkTh100(p) THEN "WARN" ELSE "OK"
    ELSE Nominal(age, p)

\* the last MaxSamples updates
Window(trace) ==
    IF Len(trace) > MaxSamples THEN SubSeq(trace, 2, Len(trace)) ELSE trace

\* _update_link_status, called by the 200 ms timer
UpdateLinkStatus ==
    /\ \E age \in (IF hb_seen \/ sensor_seen THEN LinkAges ELSE {NoLinkAge}) :
          LET status == LinkStatus(link_state_last, age,
                                   HbPeriod(hb_period_ema_ms))
          IN  /\ link_state_last' = status
              /\ link_trace' = Window(Append(link_trace,
                                  [age |-> age, status |-> status]))
    /\ UNCHANGED <<hb_period_ema_ms, hb_seen, sensor_seen, hb_count>>

LinkNext == OnHeartbeat \/ OnSensorMsg \/ UpdateLinkStatus

\* ========================================================================
\* Video session: one VideoWidget with its _ConnectWorker threads, the
\* RemoteCameraManager entry of its stream and the RemoteCv2Camera objects
\*
\* The handlers of the widget run one at a time on the GUI thread; a signal
\* of a worker thread is queued in signals until the GUI thread handles it.
\* The timer and the worker threads run when they like.  req_threads is the
\* set of threads that have touched the REQ socket of ROVStreams, which the
\* GUI thread creates with the manager.  vw_conn_frames says that a frame
\* has arrived since the last _on_connected.
\* ========================================================================
NoCam == 0
NoWorker == 0
WorkerIds == 1..MaxConnects
CamIds == 1..MaxCams
GuiThread == <<"gui", 0>>
ConnectThread(w) == <<"connect", w>>

SessionInit ==
    /\ vw_state = "waiting"
    /\ vw_camera = NoCam
    /\ vw_connect_worker = NoWorker
    /\ vw_has_frame_ts = FALSE
    /\ vw_label = "waiting"
    /\ vw_closed = FALSE
    /\ gui_blocked = FALSE
    /\ signals = <<>>
    /\ cw_pc = [w \in WorkerIds |-> "unborn"]
    /\ cw_cam = [w \in WorkerIds |-> NoCam]
    /\ cw_started = 0
    /\ opened = NoCam
    /\ cam_rx = [c \in CamIds |-> "none"]
    /\ cam_notice = [c \in CamIds |-> "none"]
    /\ cam_start_messages = [c \in CamIds |-> FALSE]
    /\ cam_count = 0
    /\ req_threads = {GuiThread}
    /\ vw_conn_frames = FALSE

GuiRuns == ~gui_blocked /\ ~vw_closed

\* QThread.isRunning() of the worker the widget holds
ConnectWorkerRunning ==
    vw_connect_worker # NoWorker /\ cw_pc[vw_connect_worker] # "done"

\* _tick outside playing with the retry time reached: _start_connect
TickStartConnect ==
    /\ GuiRuns
    /\ vw_state # "playing"
    /\ ~ConnectWorkerRunning
    /\ cw_started < MaxConnects
    /\ cw_started' = cw_started + 1
    /\ vw_connect_worker' = cw_started + 1
    /\ cw_pc' = [cw_pc EXCEPT ![cw_started + 1] = "open"]
    /\ vw_state' = "connecting"
    /\ vw_label' = "connecting"
    /\ UNCHANGED <<vw_camera, vw_has_frame_ts, vw_closed, gui_blocked,
                   signals, cw_cam, opened, cam_rx, cam_notice,
                   cam_start_messages, cam_count, req_threads>>
    /\ UNCHANGED vw_conn_frames

\* RemoteCv2Camera.release: rx.stop(), then rov.stop_stream on this thread
Released(c) == [cam_rx EXCEPT ![c] = IF @ = "live" THEN "stopped" ELSE @]

\* shutdown(): drop the connect worker, close the stream of the camera.
\* manager.close pops whatever camera the manager holds for the name and
\* releases it; the stop_stream call of release returns, or never does
Shutdown ==
    /\ vw_connect_worker' = NoWorker
    /\ IF vw_camera # NoCam /\ opened # NoCam
         THEN /\ opened' = NoCam
              /\ cam_rx' = Released(opened)
              /\ req_threads' = req_threads \cup {GuiThread}
              /\ \E replied \in BOOLEAN :
                    /\ gui_blocked' = ~replied
                    /\ vw_camera' = IF replied THEN NoCam ELSE vw_camera
         ELSE /\ vw_camera' = NoCam
              /\ UNCHANGED <<opened, cam_rx, req_threads, gui_blocked>>

\* _tick in playing with the last frame older than the stall timeout:
\* _restart_stream
TickStall ==
    /\ GuiRuns
    /\ vw_state = "playing"
    /\ vw_has_frame_ts
    /\ vw_state' = "stalled"
    /\ vw_label' = "reconnecting"
    /\ Shutdown
    /\ UNCHANGED <<vw_has_frame_ts, vw_closed, signals, cw_pc, cw_cam,
                   cw_started, cam_notice, cam_start_messages, cam_count>>
    /\ UNCHANGED vw_conn_frames

\* closeEvent / VideoTabs.stop_all: the timer is gone, then shutdown()
CloseWidget ==
    /\ GuiRuns
    /\ vw_closed' = TRUE
    /\ Shutdown
    /\ UNCHANGED <<vw_state, vw_has_frame_ts, vw_label, signals, cw_pc,
                   cw_cam, cw_started, cam_notice, cam_start_messages,
                   cam_count>>
    /\ UNCHANGED vw_conn_frames

\* the label _on_connected sets for a camera
ConnectedLabel(c) == IF cam_start_messages[c] THEN "notices" ELSE "no_frames"

\* the queued connected signal is handled: _on_connected
OnConnected ==
    /\ GuiRuns
    /\ signals # <<>>
    /\ Head(signals).sig = "connected"
    /\ signals' = Tail(signals)
    /\ vw_camera' = Head(signals).cam
    /\ vw_state' = "playing"
    /\ vw_label' = ConnectedLabel(Head(signals).cam)
    /\ UNCHANGED <<vw_connect_worker, vw_has_frame_ts, vw_closed, gui_blocked,
                   cw_pc, cw_cam, cw_started, opened, cam_rx, cam_notice,
                   cam_start_messages, cam_count, req_threads>>
    /\ vw_conn_frames' = FALSE

\* the queued failed signal is handled: _on_connect_failed
OnConnectFailed ==
    /\ GuiRuns
    /\ signals # <<>>
    /\ Head(signals).sig = "failed"
    /\ signals' = Tail(signals)
    /\ vw_state' = "waiting"
    /\ vw_label' = "retrying"
    /\ UNCHANGED <<vw_camera, vw_connect_worker, vw_has_frame_ts, vw_closed,
                   gui_blocked, cw_pc, cw_cam, cw_started, opened, cam_rx,
                   cam_notice, cam_start_messages, cam_count, req_threads>>
    /\ UNCHANGED vw_conn_frames

\* the video worker read a frame of the camera's receiver: _on_frame
OnFrame ==
    /\ GuiRuns
    /\ vw_camera # NoCam
    /\ cam_rx[vw_camera] = "live"
    /\ ~(vw_has_frame_ts /\ vw_label = "frame" /\ vw_conn_frames)
    /\ vw_has_frame_ts' = TRUE
    /\ vw_label' = "frame"
    /\ UNCHANGED <<vw_state, vw_camera, vw_connect_worker, vw_closed,
                   gui_blocked, signals, cw_pc, cw_cam, cw_started, opened,
                   cam_rx, cam_notice, cam_start_messages, cam_count,
                   req_threads>>
    /\ vw_conn_frames' = TRUE

\* _ConnectWorker.run, manager.open: the cached camera, or a new one whose
\* constructor first calls rov.start_stream on this thread
ConnectOpen(w) ==
    /\ cw_pc[w] = "open"
    /\ IF opened # NoCam
         THEN /\ cw_cam' = [cw_cam EXCEPT ![w] = opened]
              /\ cw_pc' = [cw_pc EXCEPT ![w] = "emit"]
              /\ UNCHANGED req_threads
         ELSE /\ cw_pc' = [cw_pc EXCEPT ![w] = "rpc"]
              /\ req_threads' = req_threads \cup {ConnectThread(w)}
              /\ UNCHANGED cw_cam
    /\ UNCHANGED <<vw_state, vw_camera, vw_connect_worker, vw_has_frame_ts,
                   vw_label, vw_closed, gui_blocked, signals, cw_started,
                   opened, cam_rx, cam_notice, cam_start_messages, cam_count>>
    /\ UNCHANGED vw_conn_frames

\* where a start_stream reply carries its recovery notices: nowhere, in the
\* "messages" field of the reply, or inside its "data"
NoticePlaces == {"none", "reply", "data"}

\* _call hands reply["data"] on, RemoteCv2Camera keeps resp["messages"]
KeepsNotices(place) == place = "data"

\* start_stream raises: the worker emits failed
ConnectRpcFails(w) ==
    /\ cw_pc[w] = "rpc"
    /\ cw_pc' = [cw_pc EXCEPT ![w] = "done"]
    /\ signals' = Append(signals, [sig |-> "failed", cam |-> NoCam])
    /\ UNCHANGED <<vw_state, vw_camera, vw_connect_worker, vw_has_frame_ts,
                   vw_label, vw_closed, gui_blocked, cw_cam, cw_started,
                   opened, cam_rx, cam_notice, cam_start_messages, cam_count,
                   req_threads>>
    /\ UNCHANGED vw_conn_frames

\* start_stream returns: the rest of the constructor (start_messages,
\* ReceiverProcess.start()) and "self._opened[name] = cam"
ConnectRpcReturns(w) ==
    /\ cw_pc[w] = "rpc"
    /\ cam_count < MaxCams
    /\ LET c == cam_count + 1
       IN  /\ cam_count' = c
           /\ \E place \in NoticePlaces :
                 /\ cam_notice' = [cam_notice EXCEPT ![c] = place]
                 /\ cam_start_messages' =
                       [cam_start_messages EXCEPT ![c] = KeepsNotices(place)]
           /\ cam_rx' = [cam_rx EXCEPT ![c] = "live"]
           /\ opened' = c
           /\ cw_cam' = [cw_cam EXCEPT ![w] = c]
    /\ cw_pc' = [cw_pc EXCEPT ![w] = "emit"]
    /\ UNCHANGED <<vw_state, vw_camera, vw_connect_worker, vw_has_frame_ts,
                   vw_label, vw_closed, gui_blocked, signals, cw_started,
                   req_threads>>
    /\ UNCHANGED vw_conn_frames

\* self.connected.emit(cam), and run() returns
ConnectEmit(w) ==
    /\ cw_pc[w] = "emit"
    /\ signals' = Append(signals, [sig |-> "connected", cam |-> cw_cam[w]])
    /\ cw_pc' = [cw_pc EXCEPT ![w] = "done"]
    /\ UNCHANGED <<vw_state, vw_camera, vw_connect_worker, vw_has_frame_ts,
                   vw_label, vw_closed, gui_blocked, cw_cam, cw_started,
                   opened, cam_rx, cam_notice, cam_start_messages, cam_count,
                   req_threads>>
    /\ UNCHANGED vw_conn_frames

ConnectWorkerStep ==
    \E w \in WorkerIds :
       \/ ConnectOpen(w) \/ ConnectRpcFails(w) \/ ConnectRpcReturns(w)
       \/ ConnectEmit(w)

SessionNext ==
    \/ TickStartConnect \/ TickStall \/ CloseWidget
    \/ OnConnected \/ OnConnectFailed \/ OnFrame
    \/ ConnectWorkerStep

\* ========================================================================
\* Stick axes: GamepadSource.read_once and the axes of the published frame
\*
\* Axis values are in thousandths: 1000 is 1.0, 50 is 0.05.
\* ========================================================================
Sticks == {"lx", "ly", "rx", "ry"}
CONTROLLER_DEADZONE == 150
DeadzoneValues == {0, 100, CONTROLLER_DEADZONE}
RawAxisValues == {-500, 50, 100, 500}
ZeroAxes == [a \in Sticks |-> 0]

AxisInit ==
    /\ deadzone = CONTROLLER_DEADZONE
    /\ invert_ly = TRUE
    /\ invert_ry = TRUE
    /\ axis_raw = ZeroAxes
    /\ snap_axes = ZeroAxes
    /\ frame_axes = ZeroAxes
    /\ axis_pc = "read"

Abs(v) == IF v < 0 THEN -v ELSE v

\* a deadzone that rescales what is left of the travel to the full range
DzRescaled(dz, v) ==
    IF Abs(v) < dz THEN 0
    ELSE IF v < 0 THEN -(((-v - dz) * 1000) \div (1000 - dz))
    ELSE ((v - dz) * 1000) \div (1000 - dz)

\* "return 0.0 if abs(v) < self.deadzone else v"
Dz(dz, v) == IF Abs(v) < dz THEN 0 ELSE v

\* "-ly_raw if self.invert_ly else ly_raw", the same for ry
SignAdjusted(a, v) ==
    IF (a = "ly" /\ invert_ly) \/ (a = "ry" /\ invert_ry) THEN -v ELSE v

\* _open_controller: a GamepadSource with the deadzone of the service; it
\* has read nothing yet
GamepadOpen ==
    /\ axis_pc = "read"
    /\ \E dz \in DeadzoneValues : deadzone' = dz
    /\ invert_ly' \in BOOLEAN
    /\ invert_ry' \in BOOLEAN
    /\ axis_raw' = ZeroAxes
    /\ snap_axes' = ZeroAxes
    /\ frame_axes' = ZeroAxes
    /\ UNCHANGED axis_pc

\* a tick of the publish loop, first half: read_once on the raw axes the
\* joystick reports; the frame of this tick is not built yet
ReadOnce ==
    /\ axis_pc = "read"
    /\ axis_pc' = "build"
    /\ \E raw \in [Sticks -> RawAxisValues] :
          /\ axis_raw' = raw
          /\ snap_axes' = [a \in Sticks |-> Dz(deadzone, SignAdjusted(a, raw[a]))]
    /\ frame_axes' = ZeroAxes
    /\ UNCHANGED <<deadzone, invert_ly, invert_ry>>

\* _build_frame: PilotAxes(lx=snap.lx, ly=snap.ly, rx=snap.rx, ry=snap.ry)
BuildFrameAxes ==
    /\ axis_pc = "build"
    /\ axis_pc' = "read"
    /\ frame_axes' = [a \in Sticks |-> snap_axes[a]]
    /\ UNCHANGED <<deadzone, invert_ly, invert_ry, axis_raw, snap_axes>>

AxisNext == GamepadOpen \/ ReadOnce \/ BuildFrameAxes

\* ========================================================================
\* Recorded event log: StreamRecorder
\*
\* record() is called by the threads that produce messages, stop() by the
\* thread that owns the recorder, _run is the writer thread.  A message is
\* known by its number; its time stamp is taken in record().  MaxQueue stands
\* for the queue's maxsize of 10000.  rec_accepted lists the events that a
\* record() call made after start() and before the call of stop() put into
\* the queue.
\* ========================================================================
Streams == {"pilot", "sensors"}
Sentinel == [t |-> 0, stream |-> "none", msg |-> 0]
NoEvent == [t |-> -1, stream |-> "none", msg |-> 0]
RecordEvent(n, stream) == [t |-> n, stream |-> stream, msg |-> n]

\* json.dumps({"t": ev.t, "stream": ev.stream, "msg": ev.msg}) + "\n"
LogLine(ev) == [t |-> ev.t, stream |-> ev.stream, msg |-> ev.msg]

RecInit ==
    /\ rec_fh = "none"
    /\ rec_q = <<>>
    /\ rec_stop = FALSE
    /\ rec_thread = "unborn"
    /\ rec_ev = NoEvent
    /\ rec_file = <<>>
    /\ stop_pc = "idle"
    /\ record_pc = "idle"
    /\ record_ev = NoEvent
    /\ rec_count = 0
    /\ rec_accepted = <<>>

\* start(): open the file for appending, start the writer thread
RecStart ==
    /\ rec_thread = "unborn"
    /\ rec_fh' = "open"
    /\ rec_thread' = "running"
    /\ UNCHANGED <<rec_q, rec_stop, rec_ev, rec_file, stop_pc, record_pc,
                   record_ev, rec_count, rec_accepted>>

\* record(), first half: the test of the stop flag and the new event
RecordCheck ==
    /\ rec_thread # "unborn"
    /\ record_pc = "idle"
    /\ rec_count < MaxRecords
    /\ rec_count' = rec_count + 1
    /\ IF rec_stop
         THEN UNCHANGED <<record_pc, record_ev>>
         ELSE /\ \E st \in Streams :
                    record_ev' = [ev |-> RecordEvent(rec_count + 1, st),
                                  counted |-> stop_pc = "idle"]
              /\ record_pc' = "put"
    /\ UNCHANGED <<rec_fh, rec_q, rec_stop, rec_thread, rec_ev, rec_file,
                   stop_pc, rec_accepted>>

\* record(), second half: put_nowait, the event is dropped on queue.Full
RecordPut ==
    /\ record_pc = "put"
    /\ IF Len(rec_q) < MaxQueue
         THEN /\ rec_q' = Append(rec_q, record_ev.ev)
              /\ rec_accepted' = IF record_ev.counted
                                   THEN Append(rec_accepted, record_ev.ev)
                                   ELSE rec_accepted
         ELSE UNCHANGED <<rec_q, rec_accepted>>
    /\ record_pc' = "idle"
    /\ record_ev' = NoEvent
    /\ UNCHANGED <<rec_fh, rec_stop, rec_thread, rec_ev, rec_file, stop_pc,
                   rec_count>>

\* stop(): put_nowait(None), nothing on queue.Full
StopPutSentinel ==
    /\ rec_thread # "unborn"
    /\ stop_pc = "idle"
    /\ rec_q' = IF Len(rec_q) < MaxQueue THEN Append(rec_q, Sentinel)
                                         ELSE rec_q
    /\ stop_pc' = "set"
    /\ UNCHANGED <<rec_fh, rec_stop, rec_thread, rec_ev, rec_file, record_pc,
                   record_ev, rec_count, rec_accepted>>

\* stop(): self._stop.set()
StopSetFlag ==
    /\ stop_pc = "set"
    /\ rec_stop' = TRUE
    /\ stop_pc' = "join"
    /\ UNCHANGED <<rec_fh, rec_q, rec_thread, rec_ev, rec_file, record_pc,
                   record_ev, rec_count, rec_accepted>>

\* stop(): join(timeout=timeout_s) returns, the writer ended or the time is
\* over; then flush and close of the file
StopJoinClose ==
    /\ stop_pc = "join"
    /\ rec_fh' = IF rec_fh = "open" THEN "closed" ELSE rec_fh
    /\ stop_pc' = "returned"
    /\ UNCHANGED <<rec_q, rec_stop, rec_thread, rec_ev, rec_file, record_pc,
                   record_ev, rec_count, rec_accepted>>

\* _run: "ev = self._q.get()", and the break on None
WriterGet ==
    /\ rec_thread = "running"
    /\ rec_ev = NoEvent
    /\ rec_q # <<>>
    /\ rec_q' = Tail(rec_q)
    /\ IF Head(rec_q) = Sentinel
         THEN rec_thread' = "done" /\ UNCHANGED rec_ev
         ELSE rec_ev' = Head(rec_q) /\ UNCHANGED rec_thread
    /\ UNCHANGED <<rec_fh, rec_stop, rec_file, stop_pc, record_pc, record_ev,
                   rec_count, rec_accepted>>

\* _run: the write of one line; on a closed file it raises and is ignored
WriterWrite ==
    /\ rec_thread = "running"
    /\ rec_ev # NoEvent
    /\ rec_file' = IF rec_fh = "open" THEN Append(rec_file, LogLine(rec_ev))
                                      ELSE rec_file
    /\ rec_ev' = NoEvent
    /\ UNCHANGED <<rec_fh, rec_q, rec_stop, rec_thread, stop_pc, record_pc,
                   record_ev, rec_count, rec_accepted>>

RecNext ==
    \/ RecStart \/ RecordCheck \/ RecordPut
    \/ StopPutSentinel \/ StopSetFlag \/ StopJoinClose
    \/ WriterGet \/ WriterWrite

\* ========================================================================
\* Wire schema: PilotFrame.to_dict and PilotFrame.from_dict
\*
\* A frame is a record of its fields, a Python dict with string keys a record
\* of its keys or, for edges and modes, the set of its <<key, value>> items.
\* A tuple or list is a record of its kind and its items.  Floats are in
\* thousandths.  Mode values are strings.
\* ========================================================================
PILOT_SCHEMA_VERSION == 1
AxisKeys == {"lx", "ly", "rx", "ry", "lt", "rt"}
ButtonKeys == {"a", "b", "x", "y", "lb", "rb", "win", "menu", "lstick",
               "rstick"}
PyTuple(items) == [kind |-> "tuple", items |-> items]
PyList(items) == [kind |-> "list", items |-> items]
EmptyDict == {}

\* the dataclass defaults of PilotAxes and PilotButtons
DefaultAxes == [k \in AxisKeys |-> 0]
DefaultButtons == [k \in ButtonKeys |-> FALSE]

\* time.time() at the moment a frame without "ts" is built
TimeNow == 5000

\* PilotFrame() with its defaults
DefaultFrame ==
    [schema |-> PILOT_SCHEMA_VERSION, seq |-> 0, ts |-> TimeNow,
     axes |-> DefaultAxes, buttons |-> DefaultButtons,
     dpad |-> PyTuple(<<0, 0>>), edges |-> EmptyDict, modes |-> EmptyDict]

\* the frames given to to_dict
SomeFrames ==
    { [schema |-> PILOT_SCHEMA_VERSION, seq |-> q, ts |-> t,
       axes |-> [DefaultAxes EXCEPT !["lx"] = lx, !["ly"] = ly],
       buttons |-> [DefaultButtons EXCEPT !["a"] = a],
       dpad |-> [kind |-> dk, items |-> dp], edges |-> e, modes |-> m] :
         q \in {0, 123}, t \in {0, 1234}, lx \in {0, 100}, ly \in {0, -200},
         a \in BOOLEAN, dk \in {"tuple", "list"},
         dp \in {<<0, 0>>, <<1, -1>>},
         e \in {EmptyDict, {<<"menu", "down">>}},
         m \in {EmptyDict, {<<"example", "1">>},
                {<<"depth_hold", "true">>, <<"max_gain", "1.0">>}} }

NoDict == [type |-> "none"]

FrameInit ==
    /\ pf_frame = DefaultFrame
    /\ pf_dict = NoDict
    /\ pf_back = DefaultFrame
    /\ pf_pc = "frame"

\* dataclasses.asdict of a flat dataclass: its fields by name
AsDict(obj) == [k \in DOMAIN obj |-> obj[k]]

\* to_dict
ToDict(f) ==
    [schema |-> f.schema, seq |-> f.seq, ts |-> f.ts, axes |-> AsDict(f.axes),
     buttons |-> AsDict(f.buttons), dpad |-> PyList(f.dpad.items),
     edges |-> f.edges, modes |-> f.modes, type |-> "pilot"]

\* d.get(key, default)
Get(d, key, default) == IF key \in DOMAIN d THEN d[key] ELSE default

\* "x or {}"
OrEmptyDict(x) == IF x = EmptyDict THEN EmptyDict ELSE x

\* PilotAxes(**d), PilotButtons(**d): the fields given, the defaults else
FromKwargs(defaults, d) ==
    [k \in DOMAIN defaults |-> IF k \in DOMAIN d THEN d[k] ELSE defaults[k]]

\* the dpad of from_dict left as it comes out of the dict
SameSequence(x) == x
\* tuple(x)
TupleOf(x) == PyTuple(x.items)

\* from_dict
FromDict(d) ==
    [schema |-> Get(d, "schema", PILOT_SCHEMA_VERSION),
     seq |-> Get(d, "seq", 0),
     ts |-> Get(d, "ts", TimeNow),
     axes |-> FromKwargs(DefaultAxes, Get(d, "axes", <<>>)),
     buttons |-> FromKwargs(DefaultButtons, Get(d, "buttons", <<>>)),
     dpad |-> TupleOf(Get(d, "dpad", PyTuple(<<0, 0>>))),
     edges |-> OrEmptyDict(Get(d, "edges", EmptyDict)),
     modes |-> OrEmptyDict(Get(d, "modes", EmptyDict))]

\* a frame f is built
MakeFrame ==
    /\ pf_pc \in {"frame", "back"}
    /\ pf_frame' \in SomeFrames
    /\ pf_dict' = NoDict
    /\ pf_back' = DefaultFrame
    /\ pf_pc' = "made"

\* d = f.to_dict()
FrameToDict ==
    /\ pf_pc = "made"
    /\ pf_dict' = ToDict(pf_frame)
    /\ pf_pc' = "dict"
    /\ UNCHANGED <<pf_frame, pf_back>>

\* f2 = PilotFrame.from_dict(d)
FrameFromDict ==
    /\ pf_pc = "dict"
    /\ pf_back' = FromDict(pf_dict)
    /\ pf_pc' = "back"
    /\ UNCHANGED <<pf_frame, pf_dict>>

FrameNext == MakeFrame \/ FrameToDict \/ FrameFromDict

\* ========================================================================
\* Video session timing: the retry schedule and the stall detection of
\* VideoWidget
\*
\* Times are in microseconds.  The widget reads its clock at the ticks of its
\* 250 ms timer: every _tick moves the time on by one period, and what
\* happens between two ticks happens at the time of the earlier one.
\* tw_retry_wait is _next_retry_ts - now (0 once the time is reached) and
\* tw_frame_age is now - last_frame_ts.  tw_sched_delay and tw_sched_elapsed
\* record the delay given to the last _schedule_retry and the time gone by
\* since that call, and tw_play_age the time for which the widget has been
\* in playing (0 outside playing).
\*
\* A connect attempt is a worker thread that ends with connected or failed
\* whenever it likes; its signal is queued in tw_signals until the GUI thread
\* handles it.  tw_worker is the worker the widget holds, tw_orphans counts
\* the workers shutdown() has dropped while they were running.  The stop RPC
\* of a release is taken to return.
\* ========================================================================
TickPeriod == 250000
InitialBackoff == 500000
BackoffCap == 5000000
StallTimeout == 2000000
RestartDelay == 200000

TimingInit ==
    /\ tw_state = "waiting"
    /\ tw_retry_backoff = InitialBackoff
    /\ tw_retry_wait = 0
    /\ tw_has_frame_ts = FALSE
    /\ tw_frame_age = 0
    /\ tw_camera = FALSE
    /\ tw_worker = "none"
    /\ tw_orphans = 0
    /\ tw_signals = <<>>
    /\ tw_sched_delay = 0
    /\ tw_sched_elapsed = 0
    /\ tw_play_age = 0

\* _on_connect_failed: min(self._retry_backoff_s * 1.5, 5.0)
NextBackoffDoubled(b) == Min2(b * 2, BackoffCap)
NextBackoff(b) == Min2((b * 3) \div 2, BackoffCap)

\* _schedule_retry(delay)
ScheduleRetry(delay) ==
    /\ tw_retry_wait' = delay
    /\ tw_sched_delay' = delay
    /\ tw_sched_elapsed' = 0

\* the times one timer period later, as the next _tick reads them
WaitLater == Max2(0, tw_retry_wait - TickPeriod)
AgeLater ==
    IF tw_has_frame_ts
      THEN Min2(tw_frame_age + TickPeriod, StallTimeout + TickPeriod)
      ELSE 0
ElapsedLater ==
    IF tw_sched_elapsed >= tw_sched_delay
      THEN tw_sched_elapsed
      ELSE tw_sched_elapsed + TickPeriod

PlayLater ==
    IF tw_state = "playing"
      THEN Min2(tw_play_age + TickPeriod, StallTimeout + TickPeriod)
      ELSE 0

\* _tick: the tests of lines 194 and 198
FrameStalled == tw_has_frame_ts /\ AgeLater > StallTimeout
RetryDue == WaitLater = 0

\* the stall restart would drop one running worker more than are counted
OrphansFull == tw_worker = "running" /\ tw_orphans = MaxOrphans

\* _tick outside playing with the retry time reached: _start_connect starts
\* a worker unless the one it holds is running
TwTickConnect ==
    /\ tw_state # "playing"
    /\ RetryDue
    /\ tw_worker # "running"
    /\ tw_state' = "connecting"
    /\ tw_worker' = "running"
    /\ tw_retry_wait' = WaitLater
    /\ tw_frame_age' = AgeLater
    /\ tw_sched_elapsed' = ElapsedLater
    /\ UNCHANGED <<tw_retry_backoff, tw_has_frame_ts, tw_camera, tw_orphans,
                   tw_signals, tw_sched_delay>>
    /\ tw_play_age' = PlayLater

\* _tick in playing with the last frame older than the stall timeout:
\* _restart_stream, whose shutdown() stops the frame worker, drops the
\* connect worker and releases the camera
TwTickStall ==
    /\ tw_state = "playing"
    /\ FrameStalled
    /\ ~OrphansFull
    /\ tw_state' = "stalled"
    /\ tw_worker' = "none"
    /\ tw_orphans' = IF tw_worker = "running" THEN tw_orphans + 1
                                              ELSE tw_orphans
    /\ tw_camera' = FALSE
    /\ tw_retry_backoff' = InitialBackoff
    /\ ScheduleRetry(RestartDelay)
    /\ tw_frame_age' = AgeLater
    /\ UNCHANGED <<tw_has_frame_ts, tw_signals>>
    /\ tw_play_age' = 0

\* _tick with nothing to do: playing with a fresh frame or none at all, the
\* retry time not reached, or _start_connect returning at once
TwTickIdle ==
    /\ \/ tw_state = "playing" /\ ~FrameStalled
       \/ tw_state # "playing" /\ ~RetryDue
       \/ tw_state # "playing" /\ RetryDue /\ tw_worker = "running"
    /\ tw_retry_wait' = WaitLater
    /\ tw_frame_age' = AgeLater
    /\ tw_sched_elapsed' = ElapsedLater
    /\ UNCHANGED <<tw_state, tw_retry_backoff, tw_has_frame_ts, tw_camera,
                   tw_worker, tw_orphans, tw_signals, tw_sched_delay>>
    /\ tw_play_age' = PlayLater

\* _ConnectWorker.run ends: manager.open returned a camera or raised
TwConnectEnds ==
    /\ Len(tw_signals) < MaxPending
    /\ \E sig \in {"connected", "failed"} :
          tw_signals' = Append(tw_signals, sig)
    /\ \/ /\ tw_worker = "running"
          /\ tw_worker' = "done"
          /\ UNCHANGED tw_orphans
       \/ /\ tw_orphans > 0
          /\ tw_orphans' = tw_orphans - 1
          /\ UNCHANGED tw_worker
    /\ UNCHANGED <<tw_state, tw_retry_backoff, tw_retry_wait,
                   tw_has_frame_ts, tw_frame_age, tw_camera, tw_sched_delay,
                   tw_sched_elapsed>>
    /\ UNCHANGED tw_play_age

\* the queued connected signal is handled: _on_connected
TwOnConnected ==
    /\ tw_signals # <<>>
    /\ Head(tw_signals) = "connected"
    /\ tw_signals' = Tail(tw_signals)
    /\ tw_camera' = TRUE
    /\ tw_retry_backoff' = InitialBackoff
    /\ tw_state' = "playing"
    /\ UNCHANGED <<tw_retry_wait, tw_has_frame_ts, tw_frame_age, tw_worker,
                   tw_orphans, tw_sched_delay, tw_sched_elapsed>>
    /\ tw_play_age' = 0

\* the queued failed signal is handled: _on_connect_failed
TwOnConnectFailed ==
    /\ tw_signals # <<>>
    /\ Head(tw_signals) = "failed"
    /\ tw_signals' = Tail(tw_signals)
    /\ tw_state' = "waiting"
    /\ tw_retry_backoff' = NextBackoff(tw_retry_backoff)
    /\ ScheduleRetry(tw_retry_backoff')
    /\ UNCHANGED <<tw_has_frame_ts, tw_frame_age, tw_camera, tw_worker,
                   tw_orphans>>
    /\ tw_play_age' = 0

\* the frame worker of the camera read a frame: _on_frame
TwOnFrame ==
    /\ tw_camera
    /\ tw_has_frame_ts' = TRUE
    /\ tw_frame_age' = 0
    /\ UNCHANGED <<tw_state, tw_retry_backoff, tw_retry_wait, tw_camera,
                   tw_worker, tw_orphans, tw_signals, tw_sched_delay,
                   tw_sched_elapsed>>
    /\ UNCHANGED tw_play_age

TimingNext ==
    \/ TwTickConnect \/ TwTickStall \/ TwTickIdle
    \/ TwConnectEnds \/ TwOnConnected \/ TwOnConnectFailed \/ TwOnFrame

\* ========================================================================
\* Video downlink: the bytes of a frame in _raw_reader_loop
\*
\* One reader thread after start(), the owner's stop(), and the pipe of the
\* gst-launch process.  A byte string is known by its length.  rr_pipe is
\* "open" while the process writes frames, "draining" when the process is
\* gone and bytes may be left in the pipe, "eof" when read() returns b"".
\* ========================================================================
NoLen == -1
FrameSize == FrameWidth * FrameHeight * 3

ReaderInit ==
    /\ rr_pc = "while"
    /\ rr_buf = 0
    /\ rr_stop_reader = FALSE
    /\ rr_pipe = "open"
    /\ rr_latest_len = NoLen
    /\ rr_latest_seq = 0
    /\ rr_stop_pc = "idle"

\* "while not self._stop_reader.is_set()" and the call of read_exact, which
\* begins with an empty buf
RrWhile ==
    /\ rr_pc = "while"
    /\ rr_pc' = IF rr_stop_reader THEN "done" ELSE "inner"
    /\ rr_buf' = 0
    /\ UNCHANGED <<rr_stop_reader, rr_pipe, rr_latest_len, rr_latest_seq,
                   rr_stop_pc>>

\* read_exact: "while len(buf) < n and not self._stop_reader.is_set()";
\* when the test fails, "return buf"
InnerTest == rr_buf < FrameSize /\ ~rr_stop_reader
RrInner ==
    /\ rr_pc = "inner"
    /\ rr_pc' = IF InnerTest THEN "read" ELSE "store"
    /\ UNCHANGED <<rr_buf, rr_stop_reader, rr_pipe, rr_latest_len,
                   rr_latest_seq, rr_stop_pc>>

\* "chunk = stream.read(n - len(buf))" on the unbuffered pipe: some of the
\* bytes asked for, or b"" at end of stream, which makes read_exact return
\* None and the loop break
RrRead ==
    /\ rr_pc = "read"
    /\ \/ /\ rr_pipe \in {"open", "draining"}
          /\ \E k \in 1..(FrameSize - rr_buf) : rr_buf' = rr_buf + k
          /\ rr_pc' = "inner"
       \/ /\ rr_pipe = "eof"
          /\ rr_pc' = "done"
          /\ UNCHANGED rr_buf
    /\ UNCHANGED <<rr_stop_reader, rr_pipe, rr_latest_len, rr_latest_seq,
                   rr_stop_pc>>

\* "frame is None" is false: the frame is stored under _raw_buffer_lock
RrStore ==
    /\ rr_pc = "store"
    /\ rr_latest_seq < MaxStored
    /\ rr_latest_len' = rr_buf
    /\ rr_latest_seq' = rr_latest_seq + 1
    /\ rr_pc' = "while"
    /\ UNCHANGED <<rr_buf, rr_stop_reader, rr_pipe, rr_stop_pc>>

\* stop(): the process is terminated and waited for, ...
RrStopTerminate ==
    /\ rr_stop_pc = "idle"
    /\ rr_stop_pc' = "terminated"
    /\ rr_pipe' = IF rr_pipe = "open" THEN "draining" ELSE rr_pipe
    /\ UNCHANGED <<rr_pc, rr_buf, rr_stop_reader, rr_latest_len,
                   rr_latest_seq>>

\* ... then "self._stop_reader.set()"
RrStopSet ==
    /\ rr_stop_pc = "terminated"
    /\ rr_stop_pc' = "done"
    /\ rr_stop_reader' = TRUE
    /\ UNCHANGED <<rr_pc, rr_buf, rr_pipe, rr_latest_len, rr_latest_seq>>

\* gst-launch ends on its own; the bytes left in the pipe run out
RrPipeEnds ==
    /\ \/ rr_pipe = "open" /\ rr_pipe' = "draining"
       \/ rr_pipe = "draining" /\ rr_pipe' = "eof"
    /\ UNCHANGED <<rr_pc, rr_buf, rr_stop_reader, rr_latest_len,
                   rr_latest_seq, rr_stop_pc>>

ReaderNext ==
    \/ RrWhile \/ RrInner \/ RrRead \/ RrStore
    \/ RrStopTerminate \/ RrStopSet \/ RrPipeEnds

\* ========================================================================
\* Command uplink: the pilot's gain cap for any PILOT_MAX_GAIN_* setting
\*
\* Gains are in thousandths, as in the publisher above.  The settings come
\* from the environment when the service is built; the values here are the
\* defaults of config.py and values off the 0.01 grid, a max below the min
\* and a zero step.  gn_pressed says that Y or A has been pressed.
\* ========================================================================
ConfigMins == {50, 54}
ConfigMaxs == {1000, 999, 40}
ConfigSteps == {0, 50}
ConfigDefaults == {1000, 333}

GainInit ==
    /\ gn_pc = "new"
    /\ gn_min = 0
    /\ gn_max = 0
    /\ gn_step = 0
    /\ gn_max_gain = 0
    /\ gn_modes_max_gain = 0
    /\ gn_pressed = FALSE

\* max(lo, min(hi, g))
Clamp(lo, hi, g) == Max2(lo, Min2(hi, g))

\* _adjust_max_gain(delta): the new _max_gain
ClampedRounded(lo, hi, g) == Round2(Clamp(lo, hi, g))
AdjustGain(lo, hi, g, delta) ==
    IF delta = 0 THEN g ELSE ClampedRounded(lo, hi, g + delta)

\* __init__ with some PILOT_MAX_GAIN_MIN, _MAX, _STEP and _DEFAULT
GainConfigure ==
    /\ gn_pc = "new"
    /\ \E cmin \in ConfigMins, cmax \in ConfigMaxs, cstep \in ConfigSteps,
          cdef \in ConfigDefaults :
          /\ gn_min' = Min2(cmin, cmax)
          /\ gn_max' = Max2(cmin, cmax)
          /\ gn_step' = Max2(0, cstep)
          /\ gn_max_gain' = Clamp(gn_min', gn_max', cdef)
    /\ gn_modes_max_gain' = gn_max_gain'
    /\ gn_pc' = "run"
    /\ UNCHANGED gn_pressed

\* a tick of _run_loop with the "down" edge of Y, or of A
GainPress(sign) ==
    /\ gn_pc = "run"
    /\ gn_max_gain' = AdjustGain(gn_min, gn_max, gn_max_gain, sign * gn_step)
    /\ gn_modes_max_gain' = gn_max_gain'
    /\ gn_pressed' = TRUE
    /\ UNCHANGED <<gn_pc, gn_min, gn_max, gn_step>>
GainPressY == GainPress(1)
GainPressA == GainPress(0 - 1)

GainNext == GainConfigure \/ GainPressY \/ GainPressA

\* ========================================================================
\* Command uplink: the delays between the attempts to open the controller
\*
\* Times are in milliseconds.  ol_sleeps lists the sleeps between the failed
\* attempts since the controller was last open (or since the start),
\* ol_attempts counts those attempts and ol_scans the calls of
\* refresh_joysticks made for them.
\* ========================================================================
ReopenDelays == {0, 1000, 8000}
MinOpenSleep == 100

OpenInit ==
    /\ ol_pc = "new"
    /\ ol_controller = FALSE
    /\ ol_stop = FALSE
    /\ ol_reopen_on_error_ms = 1000
    /\ ol_sleeps = <<>>
    /\ ol_attempts = 0
    /\ ol_scans = 0

\* __init__(reopen_on_error_s=...) and the start of _run_loop
OlConstruct ==
    /\ ol_pc = "new"
    /\ ol_reopen_on_error_ms' \in ReopenDelays
    /\ ol_pc' = "open_initial"
    /\ UNCHANGED <<ol_controller, ol_stop, ol_sleeps, ol_attempts, ol_scans>>

\* "time.sleep(max(0.1, self.reopen_on_error_s))" after a failed attempt
OpenSleep == Max2(MinOpenSleep, ol_reopen_on_error_ms)

\* one pass of "while not self._stop.is_set() and self._controller is None":
\* _open_controller rescans the devices and opens one, or raises
OlOpenPass(after) ==
    IF ol_stop \/ ol_controller
      THEN /\ ol_pc' = after
           /\ UNCHANGED <<ol_controller, ol_sleeps, ol_attempts, ol_scans>>
      ELSE /\ ol_scans' = ol_scans + 1
           /\ ol_attempts' = ol_attempts + 1
           /\ \/ /\ ol_controller' = TRUE
                 /\ UNCHANGED ol_sleeps
              \/ /\ ol_sleeps' = Append(ol_sleeps, OpenSleep)
                 /\ UNCHANGED ol_controller
           /\ UNCHANGED ol_pc

OlOpenInitial ==
    /\ ol_pc = "open_initial"
    /\ ol_attempts < MaxOpenFails
    /\ OlOpenPass("loop")
    /\ UNCHANGED <<ol_stop, ol_reopen_on_error_ms>>

\* the publish loop raises: the controller is closed, one sleep, then the
\* reopen loop
OlExcept ==
    /\ ol_pc = "loop"
    /\ ~ol_stop
    /\ ol_controller' = FALSE
    /\ ol_sleeps' = <<>>
    /\ ol_attempts' = 0
    /\ ol_scans' = 0
    /\ ol_pc' = "reopen"
    /\ UNCHANGED <<ol_stop, ol_reopen_on_error_ms>>

OlReopen ==
    /\ ol_pc = "reopen"
    /\ ol_attempts < MaxOpenFails
    /\ OlOpenPass("loop")
    /\ UNCHANGED <<ol_stop, ol_reopen_on_error_ms>>

\* "while not self._stop.is_set()" is false
OlLoopExit ==
    /\ ol_pc = "loop"
    /\ ol_stop
    /\ ol_pc' = "done"
    /\ UNCHANGED <<ol_controller, ol_stop, ol_reopen_on_error_ms, ol_sleeps,
                   ol_attempts, ol_scans>>

\* stop() sets the flag
OlStop ==
    /\ ol_pc \notin {"new", "done"}
    /\ ~ol_stop
    /\ ol_stop' = TRUE
    /\ UNCHANGED <<ol_pc, ol_controller, ol_reopen_on_error_ms, ol_sleeps,
                   ol_attempts, ol_scans>>

OpenNext ==
    \/ OlConstruct \/ OlOpenInitial \/ OlExcept \/ OlReopen \/ OlLoopExit
    \/ OlStop

\* ========================================================================
\* Video panel: VideoTabs and the warm-up of its streams
\*
\* Streams are named by their index in stream_names.  All handlers run on
\* the GUI thread, one at a time.  vt_widgets[i] says that _widgets holds a
\* VideoWidget for stream i; vt_order lists the streams in the order their
\* VideoWidgets were constructed, vt_raised says that a VideoWidget
\* constructor has raised and vt_fails counts those.  stop_all is called
\* when the main window closes, after which no handler runs.
\* ========================================================================
NoTab == -1
StreamIds == 0..(MaxStreams - 1)

TabsInit ==
    /\ vt_pc = "new"
    /\ vt_n = 0
    /\ vt_current = NoTab
    /\ vt_widgets = [i \in StreamIds |-> FALSE]
    /\ vt_warmup_index = 0
    /\ vt_timer = FALSE
    /\ vt_order = <<>>
    /\ vt_raised = FALSE
    /\ vt_fails = 0

\* "existing = self._widgets.get(name); if existing is not None: return"
ExistingIgnored(name) == FALSE
Existing(name) == vt_widgets[name]

\* _ensure_stream_started: nothing for a stream that has its widget, else
\* the VideoWidget is constructed and stored, or its constructor raises and
\* None is stored
EnsureStreamStarted(name) ==
    IF Existing(name)
      THEN UNCHANGED <<vt_widgets, vt_order, vt_raised, vt_fails>>
      ELSE \/ /\ vt_widgets' = [vt_widgets EXCEPT ![name] = TRUE]
              /\ vt_order' = Append(vt_order, name)
              /\ UNCHANGED <<vt_raised, vt_fails>>
           \/ /\ vt_fails < MaxCtorFails
              /\ vt_widgets' = [vt_widgets EXCEPT ![name] = FALSE]
              /\ vt_raised' = TRUE
              /\ vt_fails' = vt_fails + 1
              /\ UNCHANGED vt_order

\* __init__ with a list of stream names that is not empty: the first tab is
\* the current one, its stream is started and the warm-up timer armed
VtConstruct ==
    /\ vt_pc = "new"
    /\ vt_n' \in 1..MaxStreams
    /\ vt_current' = 0
    /\ EnsureStreamStarted(0)
    /\ vt_warmup_index' = 0
    /\ vt_timer' = TRUE
    /\ vt_pc' = "warm"

\* the passes of "for _ in range(n)" that reach a stream which is not the
\* current one and has no widget, counted from 0
MissingPasses ==
    {k \in 0..(vt_n - 1) :
        LET name == (vt_warmup_index + k) % vt_n
        IN  name # vt_current /\ ~vt_widgets[name]}
FirstPass(S) == CHOOSE k \in S : \A j \in S : k <= j

\* _warmup_next, the slot of the single-shot warm-up timer
VtWarmupNext ==
    /\ vt_pc = "warm"
    /\ vt_timer
    /\ IF MissingPasses = {}
         THEN /\ vt_warmup_index' = vt_warmup_index + vt_n
              /\ vt_timer' = FALSE
              /\ UNCHANGED <<vt_widgets, vt_order, vt_raised, vt_fails>>
         ELSE LET k == FirstPass(MissingPasses)
              IN  /\ vt_warmup_index' = vt_warmup_index + k + 1
                  /\ EnsureStreamStarted((vt_warmup_index + k) % vt_n)
                  /\ vt_timer' = TRUE
    /\ UNCHANGED <<vt_pc, vt_n, vt_current>>

\* _on_tab_changed: the operator (or cycle_stream) selects another tab
VtTabChanged ==
    /\ vt_pc = "warm"
    /\ \E idx \in 0..(vt_n - 1) :
          /\ idx # vt_current
          /\ vt_current' = idx
          /\ EnsureStreamStarted(idx)
    /\ UNCHANGED <<vt_pc, vt_n, vt_warmup_index, vt_timer>>

\* stop_all: the timer is stopped and every widget shut down and dropped
VtStopAll ==
    /\ vt_pc = "warm"
    /\ vt_timer' = FALSE
    /\ vt_widgets' = [i \in StreamIds |-> FALSE]
    /\ vt_pc' = "stopped"
    /\ UNCHANGED <<vt_n, vt_current, vt_warmup_index, vt_order, vt_raised,
                   vt_fails>>

TabsNext == VtConstruct \/ VtWarmupNext \/ VtTabChanged \/ VtStopAll

\* ========================================================================
\* Video downlink: ReceiverProcess.update and the process it runs
\*
\* ru_cfg is self.cfg; ru_proc is the part of the configuration that the
\* command line of the running gst-launch process was built from (NoProc
\* without a process).  ru_last says how the last update() ended and
\* ru_changed names the fields in which its new configuration differed from
\* the one before.
\* ========================================================================
NoProc == [mode |-> "none"]
RxModes == {"raw", "window"}
RxPorts == {5000, 5001}
RxCodecs == {"jpeg", "h264"}
RxSizes == {<<1280, 720>>, <<640, 480>>}
RxBinds == {"0.0.0.0", "192.168.2.1"}
RxOrders == {"BGR", "RGB", "rgb", "XYZ"}
RxConfigs ==
    [mode : RxModes, port : RxPorts, codec : RxCodecs, size : RxSizes,
     bind_address : RxBinds, channel_order : RxOrders]
RxFields == {"mode", "port", "codec", "size", "bind_address", "channel_order"}

\* RxConfig(name) with its defaults
DefaultRxConfig ==
    [mode |-> "window", port |-> 5000, codec |-> "jpeg",
     size |-> <<1280, 720>>, bind_address |-> "0.0.0.0",
     channel_order |-> "BGR"]

\* str.upper and _VALID_ORDERS, for the orders of RxOrders
Upper(order) == IF order = "rgb" THEN "RGB" ELSE order
ValidOrder(order) == Upper(order) \in {"BGR", "RGB"}

UpdateInit ==
    /\ ru_pc = "new"
    /\ ru_cfg = DefaultRxConfig
    /\ ru_proc = NoProc
    /\ ru_last = "none"
    /\ ru_changed = {}

\* _build_cmd: what of the configuration goes into the command line
BuildCmd(cfg) ==
    [mode |-> cfg.mode, port |-> cfg.port, codec |-> cfg.codec,
     size |-> cfg.size, bind_address |-> cfg.bind_address]

\* ReceiverManager.start_stream: ReceiverProcess(cfg), which raises for an
\* order that is not valid, and start()
RuStartStream ==
    /\ ru_pc = "new"
    /\ \E cfg \in RxConfigs :
          /\ ValidOrder(cfg.channel_order)
          /\ ru_cfg' = cfg
          /\ ru_proc' = BuildCmd(cfg)
    /\ ru_pc' = "started"
    /\ UNCHANGED <<ru_last, ru_changed>>

\* the test of update() for the live path
LiveUpdate(new_cfg) ==
    /\ ru_cfg.mode = "raw"
    /\ ValidOrder(new_cfg.channel_order)
    /\ new_cfg.channel_order # ru_cfg.channel_order

\* ReceiverManager.update_stream -> ReceiverProcess.update(**updates): the
\* new configuration is the old one with the updates; it is applied live,
\* or stored and the process restarted (stop, sleep, start)
RuUpdate ==
    /\ ru_pc = "started"
    /\ \E new_cfg \in RxConfigs :
          /\ ru_changed' = {f \in RxFields : new_cfg[f] # ru_cfg[f]}
          /\ ru_cfg' = new_cfg
          /\ IF LiveUpdate(new_cfg)
               THEN /\ ru_last' = "live"
                    /\ UNCHANGED ru_proc
               ELSE /\ ru_last' = "restart"
                    /\ ru_proc' = BuildCmd(new_cfg)
    /\ UNCHANGED ru_pc

UpdateNext == RuStartStream \/ RuUpdate

\* ========================================================================
\* Life cycle: start() and stop() of PilotPublisherService and
\* SensorSubscriberService, called by one controlling thread
\*
\* lc_thread[s] is self._thread of service s (NoThread for None), lc_alive[s]
\* the set of its threads that have been started and have not ended.
\* lc_timed_out[s] says that a join of stop() has timed out, lc_last names
\* the last call and what it did.
\* ========================================================================
Services == {"pilot", "sensor"}
NoThread == 0
ThreadIds == 1..MaxThreads

LifeInit ==
    /\ lc_pc = "idle"
    /\ lc_in = "pilot"
    /\ lc_thread = [s \in Services |-> NoThread]
    /\ lc_alive = [s \in Services |-> {}]
    /\ lc_stop = [s \in Services |-> FALSE]
    /\ lc_started = [s \in Services |-> 0]
    /\ lc_timed_out = [s \in Services |-> FALSE]
    /\ lc_last = <<"none", "pilot">>

\* "self._thread and self._thread.is_alive()"
ThreadAliveIgnored(s) == FALSE
ThreadAlive(s) == lc_thread[s] # NoThread /\ lc_thread[s] \in lc_alive[s]

\* start(): nothing while the thread is alive, else the stop flag is cleared
\* and a new thread started
LcStart(s) ==
    /\ lc_pc = "idle"
    /\ IF ThreadAlive(s)
         THEN /\ lc_last' = <<"start_ignored", s>>
              /\ UNCHANGED <<lc_thread, lc_alive, lc_stop, lc_started>>
         ELSE /\ lc_started[s] < MaxThreads
              /\ lc_stop' = [lc_stop EXCEPT ![s] = FALSE]
              /\ lc_started' = [lc_started EXCEPT ![s] = @ + 1]
              /\ lc_thread' = [lc_thread EXCEPT ![s] = lc_started[s] + 1]
              /\ lc_alive' = [lc_alive EXCEPT ![s] = @ \cup {lc_started[s] + 1}]
              /\ lc_last' = <<"started", s>>
    /\ UNCHANGED <<lc_pc, lc_in, lc_timed_out>>

\* stop() up to the join: the stop flag is set
LcStop(s) ==
    /\ lc_pc = "idle"
    /\ lc_stop' = [lc_stop EXCEPT ![s] = TRUE]
    /\ lc_pc' = "join"
    /\ lc_in' = s
    /\ lc_last' = <<"stop", s>>
    /\ UNCHANGED <<lc_thread, lc_alive, lc_started, lc_timed_out>>

\* join(timeout=1.0) returns, the thread ended or not, and stop() closes
\* what the service holds
LcJoinReturns ==
    /\ lc_pc = "join"
    /\ lc_pc' = "idle"
    /\ lc_timed_out' = [lc_timed_out EXCEPT ![lc_in] = @ \/ ThreadAlive(lc_in)]
    /\ UNCHANGED <<lc_in, lc_thread, lc_alive, lc_stop, lc_started, lc_last>>

\* a worker finds the stop flag set at the top of its loop and returns
LcWorkerExits(s) ==
    /\ lc_stop[s]
    /\ \E t \in lc_alive[s] : lc_alive' = [lc_alive EXCEPT ![s] = @ \ {t}]
    /\ UNCHANGED <<lc_pc, lc_in, lc_thread, lc_stop, lc_started,
                   lc_timed_out, lc_last>>

\* the receive thread of the sensor service ends with an exception that
\* _run does not catch
LcWorkerDies ==
    /\ \E t \in lc_alive["sensor"] :
          lc_alive' = [lc_alive EXCEPT !["sensor"] = @ \ {t}]
    /\ UNCHANGED <<lc_pc, lc_in, lc_thread, lc_stop, lc_started,
                   lc_timed_out, lc_last>>

LifeNext ==
    \/ \E s \in Services : LcStart(s) \/ LcStop(s) \/ LcWorkerExits(s)
    \/ LcJoinReturns
    \/ LcWorkerDies

Init ==
    /\ PilotInit /\ SensorInit /\ RpcInit /\ RxInit
    /\ LinkInit /\ SessionInit /\ AxisInit /\ RecInit
    /\ FrameInit /\ TimingInit /\ ReaderInit /\ GainInit
    /\ OpenInit /\ TabsInit /\ UpdateInit /\ LifeInit
SpecPilot ==
    Init /\ [][PilotNext /\ UNCHANGED <<sensorVars, rpcVars, rxVars,
                                        linkVars, sessionVars, axisVars,
                                        recVars, frameVars, timingVars,
                                        readerVars, gainVars, openVars,
                                        tabsVars, updateVars,
                                        lifeVars>>]_vars
SpecSensor ==
    Init /\ [][SensorNext /\ UNCHANGED <<pilotVars, rpcVars, rxVars,
                                         linkVars, sessionVars, axisVars,
                                         recVars, frameVars, timingVars,
                                         readerVars, gainVars, openVars,
                                         tabsVars, updateVars,
                                         lifeVars>>]_vars
RpcIdle == UNCHANGED <<pilotVars, sensorVars, rxVars, linkVars, sessionVars,
                       axisVars, recVars, frameVars, timingVars, readerVars,
                       gainVars, openVars, tabsVars, updateVars, lifeVars>>
SpecRpc == Init /\ [][RpcNext /\ RpcIdle]_vars
SpecRx ==
    Init /\ [][RxNext /\ UNCHANGED <<pilotVars, sensorVars, rpcVars,
                                     linkVars, sessionVars, axisVars,
                                     recVars, frameVars, timingVars,
                                     readerVars, gainVars, openVars,
                                     tabsVars, updateVars, lifeVars>>]_vars
SpecLink ==
    Init /\ [][LinkNext /\ UNCHANGED <<pilotVars, sensorVars, rpcVars,
                                       rxVars, sessionVars, axisVars,
                                       recVars, frameVars, timingVars,
                                       readerVars, gainVars, openVars,
                                       tabsVars, updateVars, lifeVars>>]_vars
SpecSession ==
    Init /\ [][SessionNext /\ UNCHANGED <<pilotVars, sensorVars, rpcVars,
                                          rxVars, linkVars, axisVars,
                                          recVars, frameVars, timingVars,
                                          readerVars, gainVars, openVars,
                                          tabsVars, updateVars,
                                          lifeVars>>]_vars
SpecAxis ==
    Init /\ [][AxisNext /\ UNCHANGED <<pilotVars, sensorVars, rpcVars,
                                       rxVars, linkVars, sessionVars,
                                       recVars, frameVars, timingVars,
                                       readerVars, gainVars, openVars,
                                       tabsVars, updateVars, lifeVars>>]_vars
SpecRec ==
    Init /\ [][RecNext /\ UNCHANGED <<pilotVars, sensorVars, rpcVars, rxVars,
                                      linkVars, sessionVars, axisVars,
                                      frameVars, timingVars, readerVars,
                                      gainVars, openVars, tabsVars,
                                      updateVars, lifeVars>>]_vars
SpecFrame ==
    Init /\ [][FrameNext /\ UNCHANGED <<pilotVars, sensorVars, rpcVars,
                                        rxVars, linkVars, sessionVars,
                                        axisVars, recVars, timingVars,
                                        readerVars, gainVars, openVars,
                                        tabsVars, updateVars,
                                        lifeVars>>]_vars
SpecTiming ==
    Init /\ [][TimingNext /\ UNCHANGED <<pilotVars, sensorVars, rpcVars,
                                         rxVars, linkVars, sessionVars,
                                         axisVars, recVars, frameVars,
                                         readerVars, gainVars, openVars,
                                         tabsVars, updateVars,
                                         lifeVars>>]_vars
SpecReader ==
    Init /\ [][ReaderNext /\ UNCHANGED <<pilotVars, sensorVars, rpcVars,
                                         rxVars, linkVars, sessionVars,
                                         axisVars, recVars, frameVars,
                                         timingVars, gainVars, openVars,
                                         tabsVars, updateVars,
                                         lifeVars>>]_vars
SpecGain ==
    Init /\ [][GainNext /\ UNCHANGED <<pilotVars, sensorVars, rpcVars,
                                       rxVars, linkVars, sessionVars,
                                       axisVars, recVars, frameVars,
                                       timingVars, readerVars, openVars,
                                       tabsVars, updateVars, lifeVars>>]_vars
SpecOpen ==
    Init /\ [][OpenNext /\ UNCHANGED <<pilotVars, sensorVars, rpcVars,
                                       rxVars, linkVars, sessionVars,
                                       axisVars, recVars, frameVars,
                                       timingVars, readerVars, gainVars,
                                       tabsVars, updateVars, lifeVars>>]_vars
SpecTabs ==
    Init /\ [][TabsNext /\ UNCHANGED <<pilotVars, sensorVars, rpcVars,
                                       rxVars, linkVars, sessionVars,
                                       axisVars, recVars, frameVars,
                                       timingVars, readerVars, gainVars,
                                       openVars, updateVars, lifeVars>>]_vars
SpecUpdate ==
    Init /\ [][UpdateNext /\ UNCHANGED <<pilotVars, sensorVars, rpcVars,
                                         rxVars, linkVars, sessionVars,
                                         axisVars, recVars, frameVars,
                                         timingVars, readerVars, gainVars,
                                         openVars, tabsVars, lifeVars>>]_vars
SpecLife ==
    Init /\ [][LifeNext /\ UNCHANGED <<pilotVars, sensorVars, rpcVars,
                                       rxVars, linkVars, sessionVars,
                                       axisVars, recVars, frameVars,
                                       timingVars, readerVars, gainVars,
                                       openVars, tabsVars, updateVars>>]_vars
\* the caller's thread keeps running and the network delivers or loses
SpecRpcFair ==
    /\ SpecRpc
    /\ WF_vars(RpcCaller /\ RpcIdle)
    /\ WF_vars(Remote /\ RpcIdle)
\* the 250 ms timer keeps firing and the GUI thread handles queued signals;
\* nothing makes a worker end or a frame arrive
SpecTimingFair ==
    /\ SpecTiming
    /\ WF_timingVars(TwTickConnect)
    /\ WF_timingVars(TwTickStall)
    /\ WF_timingVars(TwTickIdle)
    /\ WF_timingVars(TwOnConnected)
    /\ WF_timingVars(TwOnConnectFailed)
\* the constructor runs to its end and the warm-up timer fires when armed
SpecTabsFair ==
    /\ SpecTabs
    /\ WF_tabsVars(VtConstruct)
    /\ WF_tabsVars(VtWarmupNext)

SentSeqs == SelectSeq(frames, LAMBDA f : f.outcome = "sent")

\* C1: over a run of PilotPublisherService (successful ticks, dropped
\* frames, read errors, reopens, stop/start of the thread) the seq values of
\* the frames actually sent are strictly increasing, with no repeats
SentSeqStrictlyIncreasing ==
    \A i \in 1..Len(SentSeqs) : \A j \in 1..Len(SentSeqs) :
        i < j => SentSeqs[i].seq < SentSeqs[j].seq

\* a sent frame, then a dropped frame, then a sent frame
SentDroppedSent ==
    \E i \in 1..Len(frames) : \E j \in 1..Len(frames) : \E k \in 1..Len(frames) :
        /\ i < j /\ j < k
        /\ frames[i].outcome = "sent"
        /\ frames[j].outcome = "again"
        /\ frames[k].outcome = "sent"

\* C2: every frame the loop builds carries the current local mode state
\* (depth_hold, max_gain); and when the frame whose edge set depth_hold is
\* followed by a dropped frame, the next sent frame still carries
\* depth_hold = TRUE
ModesAreState ==
    /\ [](Len(hold_trace) = 3 => hold_trace[3].depth_hold)
    /\ [][frames' # frames =>
            /\ last_frame'.depth_hold = modes'.depth_hold
            /\ last_frame'.max_gain = modes'.max_gain
            /\ last_frame'.max_gain = max_gain']_vars

\* frame N set depth_hold, frame N+1 was dropped, frame N+2 has been sent
HoldSurvivedDrop == Len(hold_trace) = 3

\* C8: a frame whose non-blocking send fails with "would block" is dropped:
\* the loop is back at its head at once (no wait, no error handling), the
\* controller and the emitted status are as before, and the seq of the
\* dropped frame is never sent later
DroppedNotQueued ==
    /\ [](\A i \in 1..Len(frames) : \A j \in 1..Len(frames) :
            (frames[i].outcome = "again" /\ frames[j].outcome = "sent")
                => frames[i].seq # frames[j].seq)
    /\ [][(frames' # frames /\ last_frame'.outcome = "again") =>
            /\ w_pc' = "tick"
            /\ w_err' = w_err
            /\ controller' = controller
            /\ last_status' = last_status
            /\ emitted' = emitted]_vars

\* a frame was dropped and a later frame was sent on the same controller
DroppedThenSent ==
    /\ controller = "open"
    /\ \E i \in 1..Len(frames) : \E j \in 1..Len(frames) :
        i < j /\ frames[i].outcome = "again" /\ frames[j].outcome = "sent"

\* C9: on_status is never invoked with a status equal to the status of the
\* invocation before it, whichever thread emits
StatusOnlyOnChange == Len(emitted) = 2 => emitted[1] # emitted[2]

\* C4: after a message, in continued silence the SUB socket is recreated
\* once per stale interval: two staleness resets without a message between
\* them are at least stale_reconnect_s apart
StaleResetOncePerInterval ==
    reset_gap # NoAge => reset_gap >= stale_reconnect_ms

\* C10: once in its loop the receive thread ends only after stop() set the
\* stop flag: a socket error there ends with a new socket registered with the
\* poller, never with the thread gone
SensorLoopSelfHealing ==
    /\ s_pc = "done" => sensor_stop
    /\ (s_pc = "crashed" /\ s_site = "outer") => sensor_stop

\* C6: a start_stream call for a named stream whose first reply says the
\* stream already exists, and that met no transport error, sent start_stream,
\* stop_stream for that name and start_stream again, and what the caller got
\* is the outcome of the second start_stream
StartRetriesAfterExists ==
    (/\ rpc_pc = "idle"
     /\ rpc_call.op = "start_stream"
     /\ rpc_call.name # NoName
     /\ rpc_result.kind \in {"data", "remote_error"}
     /\ rpc_replies # <<>>
     /\ rpc_replies[1] = "exists")
    => /\ rpc_sent = <<Request("start_stream", rpc_call.name),
                       Request("stop_stream", rpc_call.name),
                       Request("start_stream", rpc_call.name)>>
       /\ rpc_result.stage = "second"

\* C7: a call that waits for its reply always comes to an end
CallNeverBlocksForever == (rpc_pc = "recv") ~> (rpc_pc = "idle")

\* C3: the frames read_frame returns come in the order of their stores and
\* none comes twice; a finished call returned None exactly when it saw no
\* frame or saw the frame of the caller's previous non-None result, and
\* otherwise the bytes of the frame it saw, in one of the channel orders
ReadFrameFreshnessGate ==
    /\ \A i \in 1..Len(rx_returned) : \A j \in 1..Len(rx_returned) :
          i < j => rx_returned[i] < rx_returned[j]
    /\ rx_last.out = IF rx_last.snap = NoStored \/ rx_last.snap = rx_last.before
                       THEN NoStored
                       ELSE rx_last.snap
    /\ rx_last.out # NoStored =>
          rx_last.bytes \in {Reorder(o, FrameBytes(rx_last.out)) :
                                o \in VALID_ORDERS}

\* C3 witness: two frames were returned and a further call that saw the
\* second one again returned None
SecondReadOfSameFrameIsNone ==
    /\ Len(rx_returned) >= 2
    /\ rx_last.snap # NoStored
    /\ rx_last.snap = rx_last.before
    /\ rx_last.out = NoStored

TraceAges == [i \in 1..Len(link_trace) |-> link_trace[i].age]
TraceStatus == [i \in 1..Len(link_trace) |-> link_trace[i].status]
PeriodIsOneSecond == HbPeriod(hb_period_ema_ms) = 1000

\* C5 as stated: with a period estimate of 1.0 s the ages 0.4, 1.6, 0.95, 1.6,
\* 0.95 leave at least one of the two 0.95 s samples with the status of the
\* sample before it
OneSampleKeepsStatus ==
    (PeriodIsOneSecond /\ TraceAges = <<400, 1600, 950, 1600, 950>>)
    => \/ link_trace[3].status = link_trace[2].status
       \/ link_trace[5].status = link_trace[4].status

\* C5 amended: with a period estimate of 1.0 s the ages 0.4, 1.6, 0.95, 1.6,
\* 0.95 give OK, WARN, OK, WARN, OK, since 1.6 s is above the OK threshold
\* plus margin (1.55 s); with 1.5 s in place of 1.6 s every sample is OK
StatusFollowsMargin ==
    /\ (PeriodIsOneSecond /\ TraceAges = <<400, 1600, 950, 1600, 950>>)
       => TraceStatus = <<"OK", "WARN", "OK", "WARN", "OK">>
    /\ (PeriodIsOneSecond /\ TraceAges = <<400, 1500, 950, 1500, 950>>)
       => TraceStatus = <<"OK", "OK", "OK", "OK", "OK">>

\* C5 witness: the ages 0.4, 1.6, 0.95, 1.6, 0.95 were fed under a 1.0 s
\* estimate
FiveAgesFed ==
    PeriodIsOneSecond /\ TraceAges = <<400, 1600, 950, 1600, 950>>

\* the step of the drain loop that takes the next message of the batch
DrainTakes(msg) ==
    /\ s_pc = "drain"
    /\ sub_sock # NoSock
    /\ inbox # <<>>
    /\ Head(inbox) = msg
    /\ inbox' # inbox

\* C11: a message whose on_message call raises is followed by the rest of its
\* drain batch: the step that dispatches it stays in the drain loop with the
\* remaining messages still to read, and the receive thread goes on
CallbackErrorContained ==
    [][DrainTakes("callback_raises")
         => /\ s_pc' = "drain"
            /\ inbox' = Tail(inbox)
            /\ s_dispatched' = Append(s_dispatched, "callback_raises")]_vars

\* C11 witness: a message was dispatched after one whose callback raised
DispatchedAfterRaise ==
    /\ s_pc = "drain"
    /\ Len(s_dispatched) = 2
    /\ s_dispatched[1] = "callback_raises"

\* C12: in a drain the messages given to on_message are the well-formed
\* messages read so far, each once and in the order read; the step that
\* reads a message that fails to parse goes on with the drain, dispatches
\* nothing and leaves saw_any and last_rx as they were
DrainDispatchesWellFormed ==
    /\ [](s_pc = "drain" =>
             s_dispatched = SelectSeq(s_read, LAMBDA m : m # "bad_json"))
    /\ [][DrainTakes("bad_json")
            => /\ s_pc' = "drain"
               /\ inbox' = Tail(inbox)
               /\ s_dispatched' = s_dispatched
               /\ saw_any' = saw_any
               /\ rx_age' = rx_age]_vars

\* C12 witness: a bad message was skipped before any message was ever
\* received, and the message after it was dispatched
SkippedBadThenDispatched ==
    /\ s_pc = "drain"
    /\ s_read = <<"bad_json", "good">>
    /\ s_dispatched = <<"good">>

\* C13: the REQ socket of the video control client is touched by one thread
\* only
ReqSocketHasOneThread == Cardinality(req_threads) <= 1

\* C14: once stop() has returned and the publish thread has finished, the
\* pilot service holds no open socket
PilotStoppedHoldsNoSocket ==
    (pilot_stop /\ c_pc = "idle" /\ w_pc = "done") => pub_sock = "none"

\* the same of the sensor service and its receive thread
SensorStoppedHoldsNoSocket ==
    (sensor_stop /\ sc_pc = "idle" /\ s_pc \in {"done", "crashed"})
        => (sub_sock = NoSock /\ open_socks = {})

\* the cameras of the stream whose receiver process is alive; every camera
\* of one stream definition binds the port of that definition
LiveReceivers == {c \in CamIds : cam_rx[c] = "live"}

\* C15: never two live receiver processes of the stream session on its port
NeverTwoLiveReceivers == Cardinality(LiveReceivers) <= 1

\* C16: every frame read_frame returned was stored by the reader of the
\* process that ran when it was stored, never by a reader of a process that an
\* earlier start() spawned
NoFrameOfPreviousProcess ==
    \A i \in DOMAIN rx_returned : rx_returned[i] \notin old_frames

\* the parts of the same sentence on the counters: one store, one more; the
\* start() that spawns a process leaves the empty baseline
SeqCountsStores ==
    [][/\ stored' # stored => latest_seq' = latest_seq + 1
       /\ (proc # "running" /\ proc' = "running")
             => (latest_frame' = NoStored /\ latest_seq' = 0
                 /\ last_delivered_seq' = 0)]_vars

\* C17: the stick axes of a snapshot, and of the frame built from it, are 0
\* below the deadzone and else the sign-adjusted raw value itself
DeadzonePassThrough ==
    /\ \A a \in Sticks :
          LET v == SignAdjusted(a, axis_raw[a])
              out == IF Abs(v) < deadzone THEN 0 ELSE v
          IN  /\ snap_axes[a] = out
              /\ axis_pc = "read" => frame_axes[a] = out
    /\ (deadzone = 100 /\ axis_raw["lx"] = 50) => snap_axes["lx"] = 0
    /\ (deadzone = 100 /\ axis_raw["lx"] = 500) => snap_axes["lx"] = 500

\* with deadzone 0.1, lx 0.05 was read as 0.0 and rx 0.5 as 0.5, and the frame
\* of the tick was built
SmallZeroLargeKept ==
    /\ deadzone = 100
    /\ axis_pc = "read"
    /\ axis_raw["lx"] = 50 /\ frame_axes["lx"] = 0
    /\ axis_raw["rx"] = 500 /\ frame_axes["rx"] = 500

NoticesReachOperator ==
    /\ \A c \in CamIds : cam_notice[c] # "none" => cam_start_messages[c]
    /\ (vw_camera # NoCam /\ cam_notice[vw_camera] # "none"
        /\ vw_state = "playing" /\ vw_label # "frame")
           => vw_label = "notices"

\* C20: the log holds one line {t, stream, msg} for each accepted event, in
\* the order of the queue, and holds all of them once stop() has returned
RecordedLinesWritten ==
    /\ Len(rec_file) <= Len(rec_accepted)
    /\ \A i \in DOMAIN rec_file :
          /\ DOMAIN rec_file[i] = {"t", "stream", "msg"}
          /\ rec_file[i] = LogLine(rec_accepted[i])
    /\ stop_pc = "returned" => Len(rec_file) = Len(rec_accepted)

\* C21: from_dict(to_dict(f)) has the schema, seq, ts, axes, buttons, edges
\* and modes of f and the dpad of f as a tuple; to_dict carries type "pilot"
FrameRoundTrip ==
    /\ pf_pc \in {"dict", "back"} => pf_dict.type = "pilot"
    /\ pf_pc = "back" =>
          /\ pf_back.schema = pf_frame.schema
          /\ pf_back.seq = pf_frame.seq
          /\ pf_back.ts = pf_frame.ts
          /\ pf_back.axes = pf_frame.axes
          /\ pf_back.buttons = pf_frame.buttons
          /\ pf_back.dpad.kind = "tuple"
          /\ pf_back.dpad.items = pf_frame.dpad.items
          /\ pf_back.edges = pf_frame.edges
          /\ pf_back.modes = pf_frame.modes

\* the frame of the round-trip test came back
TestFrameCameBack ==
    /\ pf_pc = "back"
    /\ pf_frame.seq = 123
    /\ pf_frame.dpad = PyTuple(<<1, -1>>)
    /\ pf_back.dpad = PyTuple(<<1, -1>>)
    /\ pf_back.edges = {<<"menu", "down">>}
    /\ pf_back.buttons["a"]

\* C22: the session is playing only when a frame of its connection has
\* arrived
PlayingOnlyAfterFirstFrame == vw_state = "playing" => vw_conn_frames

\* the steps of the video session, as seen from its state
FailedHandled == tw_signals # <<>> /\ Head(tw_signals) = "failed"
                    /\ tw_signals' = Tail(tw_signals)
ConnectedHandled == tw_signals # <<>> /\ Head(tw_signals) = "connected"
                       /\ tw_signals' = Tail(tw_signals)
StallRestart == tw_state = "playing" /\ tw_state' = "stalled"
AttemptStarts == tw_worker # "running" /\ tw_worker' = "running"

\* C23: a playing session to which no new frame comes does not stay in
\* playing, whether or not it has ever received a frame; a state with a
\* frame of age 0 is one where a new frame has just arrived
StallAlwaysDetected ==
    (tw_state = "playing" /\ ~OrphansFull) ~>
        (tw_state # "playing" \/ (tw_has_frame_ts /\ tw_frame_age = 0))

\* the same for sessions that have received a frame at some time, and what
\* ends playing there: the stall restart, or a failed signal that a worker
\* started during the connect sent after the connected one
StallDetectedAfterFrame ==
    (tw_state = "playing" /\ tw_has_frame_ts /\ ~OrphansFull) ~>
        (tw_state # "playing" \/ tw_frame_age = 0)
PlayingEnds ==
    [][tw_state = "playing" /\ tw_state' # "playing" =>
          \/ tw_state' = "stalled" /\ ~tw_camera' /\ tw_retry_wait' = 200000
          \/ tw_state' = "waiting" /\ FailedHandled]_vars

TickNeverWaitsOnRemote == ~(gui_blocked /\ ~vw_closed)

\* C26: the latest-frame slot holds nothing or a frame of exactly
\* width*height*3 bytes
StoredFramesAreWhole == rr_latest_len \in {NoLen, FrameSize}

\* without stop() it does: end of stream alone never stores a part
WholeUnlessStopped ==
    rr_stop_pc = "idle" => rr_latest_len \in {NoLen, FrameSize}

\* C27: while no message has been received, a poll timeout that finds more
\* than initial_reconnect_s gone since the socket was made closes and
\* remakes it, and the reset of this rule comes no sooner than
\* initial_reconnect_s after the socket was made at the start of _run or by
\* this rule
PollTimesOut ==
    /\ s_pc = "poll" /\ s_pc' \in {"poll", "reset_close"}
    /\ faults' = faults /\ sc_pc' = sc_pc
    /\ ~saw_any /\ make_site \in {"first", "initial"}
InitialResetBegins ==
    s_pc = "poll" /\ s_pc' = "reset_close" /\ s_site' = "initial"
GainInRangeOnGrid ==
    gn_pressed =>
        /\ gn_min <= gn_modes_max_gain /\ gn_modes_max_gain <= gn_max
        /\ gn_modes_max_gain % 10 = 0

\* with min and max on the grid it stays in range, and with a step that is
\* not zero as well it is on the grid
OnGridBoundsInRange ==
    (gn_pressed /\ gn_min % 10 = 0 /\ gn_max % 10 = 0) =>
        /\ gn_min <= gn_modes_max_gain /\ gn_modes_max_gain <= gn_max
        /\ gn_step # 0 => gn_modes_max_gain % 10 = 0

\* C29: of the sleeps between failed attempts to open the controller the
\* first is 0.1 s, each later one is longer than the one before it or is the
\* cap, and none is above the cap of 5 s
OpenDelaysGrowToCap ==
    /\ ol_sleeps # <<>> => ol_sleeps[1] = 100
    /\ \A i \in 1..Len(ol_sleeps) : ol_sleeps[i] <= 5000
    /\ \A i \in 1..(Len(ol_sleeps) - 1) :
          ol_sleeps[i + 1] > ol_sleeps[i] \/ ol_sleeps[i + 1] = 5000

\* every attempt rescans the devices, and the sleeps are all the same
EveryAttemptRescans == ol_scans = ol_attempts
OpenDelaysConstant ==
    \A i \in 1..Len(ol_sleeps) :
       ol_sleeps[i] = Max2(100, ol_reopen_on_error_ms)


\* an update of the link status made with the previous status NO DATA from
\* an age that is known
UnbiasedUpdate ==
    /\ link_state_last = "NO DATA"
    /\ hb_period_ema_ms' = hb_period_ema_ms
    /\ link_trace' # link_trace
    /\ link_trace' # <<>>
    /\ link_trace'[Len(link_trace')].age # NoLinkAge

\* the status by thresholds that are multiples of the period and nothing else
ScaledStatus(age, p) ==
    IF 100 * age < 135 * p THEN "OK"
    ELSE IF 100 * age < 325 * p THEN "WARN"
    ELSE "LOST"

\* C30: an update with the previous status NO DATA gives OK for an age below
\* 1.35 p, WARN for an age below 3.25 p and LOST otherwise, for every
\* smoothed period p
ThresholdsScaleWithPeriod ==
    [][UnbiasedUpdate
         => link_state_last' =
              ScaledStatus(link_trace'[Len(link_trace')].age,
                           HbPeriod(hb_period_ema_ms))]_vars

\* it does for a period of at least 0.8 s, where 1.35 p and 3.25 p are above
\* the floors of 0.9 s and 2.5 s
ThresholdsScaleAboveFloors ==
    [][(UnbiasedUpdate /\ HbPeriod(hb_period_ema_ms) >= 800)
         => link_state_last' =
              ScaledStatus(link_trace'[Len(link_trace')].age,
                           HbPeriod(hb_period_ema_ms))]_vars


\* an update of the link status from an age that is known, made under the
\* period p
KnownAgeUpdate ==
    /\ hb_period_ema_ms' = hb_period_ema_ms
    /\ link_trace' # link_trace
    /\ link_trace' # <<>>
    /\ link_trace'[Len(link_trace')].age # NoLinkAge
UpdateAge100 == 100 * link_trace[Len(link_trace)].age
PeriodNow == HbPeriod(hb_period_ema_ms)

\* the age is within one margin of the OK threshold, of the WARN threshold
InOkBand(a100, p) ==
    OkTh100(p) - Margin100(p) <= a100 /\ a100 < OkTh100(p) + Margin100(p)
InWarnBand(a100, p) ==
    WarnTh100(p) - Margin100(p) <= a100 /\ a100 < WarnTh100(p) + Margin100(p)

\* C31: an update whose age is inside the margin band around a threshold of
\* the previous status leaves the status as it was: OK and WARN around the
\* OK threshold, WARN and LOST around the WARN threshold
BandKeepsStatus ==
    [][(/\ KnownAgeUpdate
        /\ \/ link_state_last \in {"OK", "WARN"}
              /\ InOkBand(UpdateAge100', PeriodNow)
           \/ link_state_last \in {"WARN", "LOST"}
              /\ InWarnBand(UpdateAge100', PeriodNow))
         => link_state_last' = link_state_last]_vars

\* the downgrades wait for threshold plus margin, and LOST is left only
\* below the WARN threshold minus margin
DowngradeNeedsMargin ==
    [][KnownAgeUpdate =>
         /\ (link_state_last = "OK" /\ link_state_last' # "OK")
              => UpdateAge100' >= OkTh100(PeriodNow) + Margin100(PeriodNow)
         /\ (link_state_last = "WARN" /\ link_state_last' = "LOST")
              => UpdateAge100' >= WarnTh100(PeriodNow) + Margin100(PeriodNow)
         /\ (link_state_last = "LOST" /\ link_state_last' # "LOST")
              => UpdateAge100' < WarnTh100(PeriodNow) - Margin100(PeriodNow)]_vars

\* WARN goes back to OK at every age below the OK threshold plus margin,
\* which is the age that downgrades OK
WarnLeftBelowMargin ==
    [][(KnownAgeUpdate /\ link_state_last = "WARN")
         => (link_state_last' = "OK"
               <=> UpdateAge100' < OkTh100(PeriodNow) + Margin100(PeriodNow))]_vars


\* the warm-up timer fires
WarmupFires == vt_pc = "warm" /\ vt_timer /\ vt_warmup_index' # vt_warmup_index
StartedOnce(i) == Cardinality({j \in 1..Len(vt_order) : vt_order[j] = i}) = 1
AllStartedOnce ==
    \A i \in 0..(vt_n - 1) : vt_widgets[i] /\ StartedOnce(i)
WarmupOver == vt_pc = "warm" /\ ~vt_timer

LiveOnlyForOrderAlone ==
    /\ ru_last = "live" => ru_changed = {"channel_order"}
    /\ ru_last # "none" =>
          /\ ru_proc.port = ru_cfg.port
          /\ ru_proc.codec = ru_cfg.codec
          /\ ru_proc.size = ru_cfg.size
          /\ ru_proc.bind_address = ru_cfg.bind_address

\* an update applied live changed channel_order, in raw mode, and an update
\* that left channel_order alone restarted the process
LiveChangesOrder ==
    /\ ru_last = "live" => "channel_order" \in ru_changed
    /\ (ru_last # "none" /\ "channel_order" \notin ru_changed)
          => (ru_last = "restart" /\ ru_proc = BuildCmd(ru_cfg))


\* a tick reads the controller and computes the edges
ReadsButtons == w_pc = "tick" /\ w_pc' \in {"tick_a", "emit_check"}
TogglePressed == DEPTH_HOLD_TOGGLE_BUTTON \in w_frame'.buttons

\* C34: a tick computes a "down" edge for the toggle button, and flips
\* depth_hold, exactly when it reads the button pressed and the read before
\* it in the same controller session read it released; the first read after
\* the controller is opened or reopened gives no edge and changes no mode
OneDownEdgePerPress ==
    [][ReadsButtons =>
         /\ (w_edges'[DEPTH_HOLD_TOGGLE_BUTTON] = "down")
               <=> (ses_prev_read = "up" /\ TogglePressed)
         /\ (modes'.depth_hold # modes.depth_hold)
               <=> (ses_prev_read = "up" /\ TogglePressed)
         /\ ses_prev_read = "none"
               => (w_edges' = NoEdges /\ modes' = modes
                     /\ max_gain' = max_gain)]_vars

\* C34 witness: the toggle button is read pressed for the second tick in a
\* row, after the press has turned depth hold on: no edge this time
HeldSecondTick ==
    /\ w_pc = "tick_a"
    /\ ses_prev_read = "down"
    /\ DEPTH_HOLD_TOGGLE_BUTTON \in prev_buttons
    /\ DEPTH_HOLD_TOGGLE_BUTTON \in w_frame.buttons
    /\ w_edges[DEPTH_HOLD_TOGGLE_BUTTON] = "-"
    /\ modes.depth_hold


\* the publish thread sends a frame on the PUB socket
FramePublished ==
    /\ Len(frames') = Len(frames) + 1
    /\ frames'[Len(frames')].outcome = "sent"

\* C35: a frame is sent only when the last controller status given to
\* on_status is connected: none between a disconnected status and the next
\* connected one
NoFrameWhileDisconnected ==
    [][FramePublished => ctrl_reported = "connected"]_vars

\* C35 witness: a frame was sent, the controller was lost and reported, was
\* reopened and reported, and a second frame was sent
SentAgainAfterReopen ==
    /\ Len(frames) = 2
    /\ frames[1].outcome = "sent"
    /\ frames[2].outcome = "sent"
    /\ Len(emitted) = 2
    /\ emitted[1].controller = "disconnected"
    /\ emitted[1].error = "read_error"
    /\ emitted[2].controller = "connected"


\* C36: a session is declared stalled only when, as the tick reads the
\* clock, it has been in playing for longer than the stall timeout
StallAgeWithinConnection ==
    [][StallRestart => PlayLater > StallTimeout]_vars

\* a session that had no frame before it entered playing is held to that
StallAfterFirstFrameOnly ==
    [][StallRestart => tw_has_frame_ts]_vars


\* the connect workers whose run() has started and not returned
InFlight == {w \in WorkerIds : cw_pc[w] \notin {"unborn", "done"}}

\* C37: at most one connect attempt of the session is in flight
OneAttemptInFlight == Cardinality(InFlight) <= 1

\* a worker is started only when the worker the widget holds has finished,
\* or when it holds none
StartsWhenHeldWorkerDone ==
    [][cw_started' # cw_started => ~ConnectWorkerRunning]_vars


\* shutdown() of the closed widget has returned and no connect worker runs
ShutDownAndQuiet == vw_closed /\ ~gui_blocked /\ InFlight = {}

\* C38: once the session is shut down and every connect attempt has ended,
\* the manager holds no camera of the stream whose receiver process runs
ShutdownReleasesLateCamera ==
    ShutDownAndQuiet => (opened = NoCam \/ cam_rx[opened] # "live")

\* it holds none when no connected signal of a worker is left unhandled
ShutdownReleasesHeldCamera ==
    (ShutDownAndQuiet /\ vw_camera = NoCam /\ signals = <<>>)
        => (opened = NoCam \/ cam_rx[opened] # "live")


\* stop() has returned and the publish thread it stopped has exited
StoppedAndExited == pilot_stop /\ c_pc = "idle" /\ w_pc = "done"

\* C39: once stop() has returned and the publish thread has exited, the last
\* status given to on_status is the stopped status
StoppedIsLastStatus ==
    StoppedAndExited =>
        /\ emitted # <<>>
        /\ emitted[Len(emitted)].controller = "stopped"


\* the controlling thread calls start() of service s
StartCalled(s) ==
    /\ lc_pc = "idle"
    /\ lc_pc' = "idle"
    /\ lc_last' \in {<<"started", s>>, <<"start_ignored", s>>}
    /\ lc_last' # lc_last \/ lc_started' # lc_started

\* C40: each service has at most one worker thread running, and a start()
\* made while its thread is alive changes nothing
OneWorkerPerService ==
    /\ [](\A s \in Services : Cardinality(lc_alive[s]) <= 1)
    /\ [][\A s \in Services :
            (StartCalled(s) /\ lc_alive[s] # {})
              => UNCHANGED <<lc_thread, lc_alive, lc_stop, lc_started>>]_vars

\* C40 witness: a stop() of the pilot service whose join timed out, a start()
\* ignored because the thread was still alive, and the thread still running
StartIgnoredAfterTimedOutStop ==
    /\ lc_timed_out["pilot"]
    /\ lc_last = <<"start_ignored", "pilot">>
    /\ lc_stop["pilot"]
    /\ lc_alive["pilot"] = {lc_thread["pilot"]}

====
